---- MODULE Spec2Model ----
(***************************************************************************)
(* Virtual tape cleanup: the remote Storage Gateway service, the two retry *)
(* wrappers, the expiry classifier and the delete orchestrators of         *)
(* delete_expired_virtual_tapes.py (VirtualTapeManager), tape_manager.py   *)
(* (TapeManager) and tape_operations.py.                                   *)
(*                                                                         *)
(* The programs are sequential: one operation runs to its return (or to    *)
(* sys.exit) before the next begins.  An operation is modelled as one      *)
(* action.  Its code is a chain of operators that thread a "world" record  *)
(* w: the remote inventory, the remote responses still to come, the log of *)
(* remote attempts made, the sleeps taken, and whether sys.exit was called.*)
(***************************************************************************)
EXTENDS Integers, Sequences, FiniteSets, TLC

VARIABLES
    tapes,      \* remote service: the virtual tapes, in listing order
    gateways,   \* remote service: the gateway ARNs, in listing order
    script,     \* outcome of the k-th remote attempt of the last operation
    call,       \* the last operation and its arguments
    log,        \* remote attempts issued by the last operation, in order
    sleeps,     \* time.sleep delays taken by the last operation, in order
    result,     \* return value of the last operation
    exited,     \* the process was terminated by sys.exit(1)
    runs,       \* operations run so far
    previous    \* the operation before the last: call, result, exited

vars == <<tapes, gateways, script, call, log, sleeps, result, exited, runs,
          previous>>

----------------------------------------------------------------------------
(* Bounds of the model *)

\* the Limit=100 of list_tapes and list_gateways, scaled down
PageLimit == 2
\* most tapes in the remote inventory
MaxTapes == 3
\* most identifiers in an explicit list
MaxIds == 2
\* batch_size=100 of the enumeration probe, scaled down
BatchSize == 2
\* the injected failures start no later than this remote attempt
MaxFaultAt == 3

----------------------------------------------------------------------------
(* Program constants *)

MAX_RETRIES == 3
RETRY_DELAY == 2
ArchiveFallbackDays == 3650
SecondsPerDay == 86400

\* datetime.now(timezone.utc) during the run, in seconds
Now == 5000 * SecondsPerDay

Statuses ==
    {"CREATING", "AVAILABLE", "IN_TRANSIT_TO_VTS", "ARCHIVED", "RETRIEVED",
     "DELETING", "DELETED", "IRRECOVERABLE", "RECOVERING"}

NoGateway == "none"
NoDate == -1
NoMarker == 0
OK == "ok"

RateLimitCodes == {"ThrottlingException", "RequestLimitExceeded"}
ServiceErrorCodes == {"InternalServerError", "ServiceUnavailableException"}
PermanentCodes ==
    {"LimitExceededException", "InvalidGatewayRequestException",
     "AccessDeniedException", "UnauthorizedOperation",
     "ResourceNotFoundException"}
\* a ClientError with a code the program does not know
UnknownCodes == {"ValidationException"}
ClientErrorCodes ==
    RateLimitCodes \cup ServiceErrorCodes \cup PermanentCodes \cup UnknownCodes
\* exceptions that are not ClientError
OtherErrors == {"EndpointConnectionError", "BotoCoreError", "RuntimeError"}
ErrorCodes == ClientErrorCodes \cup OtherErrors

----------------------------------------------------------------------------
(* Helpers *)

Min(a, b) == IF a < b THEN a ELSE b

Range(s) == {s[i] : i \in 1..Len(s)}

\* a delay factor that does not grow with the attempt index
Pow2Flat(k) == 1

\* 2 ** k
RECURSIVE Pow2(_)
Pow2(k) == IF k = 0 THEN 1 ELSE 2 * Pow2(k - 1)

----------------------------------------------------------------------------
(* The remote service (boto3 storagegateway client) *)

NoArgs == [gw |-> NoGateway, arns |-> <<>>, marker |-> NoMarker]

\* what list_tapes returns for each tape (no creation date)
TapeInfo(t) ==
    [TapeARN |-> t.TapeARN, TapeBarcode |-> t.TapeBarcode,
     TapeStatus |-> t.TapeStatus,
     TapeSizeInBytes |-> t.TapeSizeInBytes,
     TapeUsedInBytes |-> t.TapeUsedInBytes]

OnGateway(t, gw) == t.GatewayARN = gw /\ t.TapeStatus # "ARCHIVED"

\* the error the service itself answers with, OK if none
ServiceError(w, op, args) ==
    CASE op = "describe_tapes" ->
           IF args.gw \in Range(w.gws) THEN OK
           ELSE "InvalidGatewayRequestException"
      [] op = "delete_tape" ->
           IF \E i \in 1..Len(w.inv) :
                 /\ w.inv[i].TapeARN = args.arns[1]
                 /\ OnGateway(w.inv[i], args.gw)
           THEN OK ELSE "InvalidGatewayRequestException"
      [] op = "delete_tape_archive" ->
           IF \E i \in 1..Len(w.inv) :
                 /\ w.inv[i].TapeARN = args.arns[1]
                 /\ w.inv[i].TapeStatus = "ARCHIVED"
           THEN OK ELSE "InvalidGatewayRequestException"
      [] OTHER -> OK

\* the response of a successful call: items and continuation marker
ServiceResponse(w, op, args) ==
    CASE op = "list_tapes" ->
           LET first == IF args.marker = NoMarker THEN 1 ELSE args.marker
               last == Min(first + PageLimit - 1, Len(w.inv))
           IN [items |-> [i \in 1..(last - first + 1) |->
                             TapeInfo(w.inv[first + i - 1])],
               marker |-> IF last < Len(w.inv) THEN last + 1 ELSE NoMarker]
      [] op = "list_gateways" ->
           LET last == Min(PageLimit, Len(w.gws))
           IN [items |-> SubSeq(w.gws, 1, last),
               marker |-> IF last < Len(w.gws) THEN last + 1 ELSE NoMarker]
      [] op = "describe_tapes" ->
           LET Mine(t) == OnGateway(t, args.gw) /\ t.TapeARN \in Range(args.arns)
           IN [items |-> SelectSeq(w.inv, Mine), marker |-> NoMarker]
      [] OTHER -> [items |-> <<>>, marker |-> NoMarker]

\* the inventory after a successful call
ServiceEffect(w, op, args) ==
    IF op \in {"delete_tape", "delete_tape_archive"}
    THEN LET Others(t) == t.TapeARN # args.arns[1] IN SelectSeq(w.inv, Others)
    ELSE w.inv

\* One attempt of one remote call.  The script decides whether the attempt
\* fails in transit; otherwise the service answers.
RemoteCall(w, op, args, wrapped) ==
    LET k == w.n + 1
        \* the attempt ended with err (OK if none) and the response resp
        Answered(err, resp) ==
          LET entry == [op |-> op, gw |-> args.gw, arns |-> args.arns,
                        marker |-> args.marker, out |-> err,
                        wrapped |-> wrapped,
                        returned |-> Len(resp.items), next |-> resp.marker]
          IN [w |-> [w EXCEPT !.n = k,
                              !.log = Append(@, entry),
                              !.inv = IF err = OK
                                      THEN ServiceEffect(w, op, args)
                                      ELSE @],
              err |-> err,
              resp |-> resp]
        Ended(err) ==
          Answered(err, IF err = OK THEN ServiceResponse(w, op, args)
                        ELSE [items |-> <<>>, marker |-> NoMarker])
        Sent(injected) ==
          Ended(IF injected # OK THEN injected
                ELSE ServiceError(w, op, args))
    IN Sent(IF k <= Len(w.script) THEN w.script[k] ELSE OK)

----------------------------------------------------------------------------
(* VirtualTapeManager: error classification and retry wrapper *)

\* _handle_aws_error answering "retryable" for every ClientError
HandleAwsErrorAllRetryable(error, critical) ==
    IF error \in ClientErrorCodes THEN [retryable |-> TRUE, exit |-> FALSE]
    ELSE [retryable |-> FALSE, exit |-> critical]

\* _handle_aws_error: is the error retryable, and does it call sys.exit
HandleAwsError(error, critical) ==
    IF error \in ClientErrorCodes
    THEN IF error \in RateLimitCodes THEN [retryable |-> TRUE, exit |-> FALSE]
         ELSE IF error \in ServiceErrorCodes
              THEN [retryable |-> TRUE, exit |-> FALSE]
         ELSE [retryable |-> FALSE, exit |-> critical]
    ELSE [retryable |-> FALSE, exit |-> critical]

\* _retry_with_backoff, from attempt number `attempt` on.
\* Returns the world, the error raised (OK if none) and the response.
RECURSIVE RetryWithBackoff(_, _, _, _, _)
RetryWithBackoff(w, op, args, critical, attempt) ==
    LET \* r is the outcome of func(*args, **kwargs)
        Attempt(r) ==
          LET h == HandleAwsError(r.err, FALSE)
              raise == [w |-> r.w, err |-> r.err, resp |-> r.resp]
              exit == [w |-> [r.w EXCEPT !.exit = TRUE], err |-> r.err,
                       resp |-> r.resp]
          IN IF r.err = OK THEN [w |-> r.w, err |-> OK, resp |-> r.resp]
             ELSE IF h.exit THEN exit
             ELSE IF ~h.retryable THEN (IF critical THEN exit ELSE raise)
             ELSE IF attempt < MAX_RETRIES - 1
                  THEN RetryWithBackoff(
                          [r.w EXCEPT !.sleeps =
                              Append(@, RETRY_DELAY * Pow2(attempt))],
                          op, args, critical, attempt + 1)
             ELSE IF critical THEN exit ELSE raise
    IN Attempt(RemoteCall(w, op, args, TRUE))

----------------------------------------------------------------------------
(* TapeManager: retry wrapper *)

\* _retry_api_call without the attempt cap on the rate-limit branch
RECURSIVE RetryApiCallUncapped(_, _, _, _)
RetryApiCallUncapped(w, op, args, attempt) ==
    LET Attempt(r) ==
          IF r.err = OK THEN [w |-> r.w, err |-> OK, resp |-> r.resp]
          ELSE IF r.err \in ClientErrorCodes /\ r.err \in RateLimitCodes
               THEN RetryApiCallUncapped(
                       [r.w EXCEPT !.sleeps =
                           Append(@, RETRY_DELAY * Pow2(attempt))],
                       op, args, attempt + 1)
          ELSE [w |-> r.w, err |-> r.err, resp |-> r.resp]
    IN Attempt(RemoteCall(w, op, args, TRUE))

\* _retry_api_call, from attempt number `attempt` on
RECURSIVE RetryApiCall(_, _, _, _)
RetryApiCall(w, op, args, attempt) ==
    LET \* r is the outcome of func(*args, **kwargs)
        Attempt(r) ==
          IF r.err = OK THEN [w |-> r.w, err |-> OK, resp |-> r.resp]
          ELSE IF /\ r.err \in ClientErrorCodes
                  /\ r.err \in RateLimitCodes
                  /\ attempt < MAX_RETRIES - 1
               THEN RetryApiCall(
                       [r.w EXCEPT !.sleeps =
                           Append(@, RETRY_DELAY * Pow2(attempt))],
                       op, args, attempt + 1)
          ELSE [w |-> r.w, err |-> r.err, resp |-> r.resp]
    IN Attempt(RemoteCall(w, op, args, TRUE))

----------------------------------------------------------------------------
(* VirtualTapeManager: expiry classifier *)

\* (now - creation_date).days: timedelta.days is the floor of the difference
AgeDays(now, creation_date) == (now - creation_date) \div SecondsPerDay

\* is_tape_expired with ">=" in place of ">"
IsTapeExpiredInclusive(tape, expiry_days, now) ==
    IF tape.TapeCreatedDate # NoDate
    THEN AgeDays(now, tape.TapeCreatedDate) >= expiry_days
    ELSE tape.TapeStatus = "ARCHIVED" /\ ~(expiry_days > ArchiveFallbackDays)

\* is_tape_expired treating every tape without a date as the archived ones
IsTapeExpiredAnyStatus(tape, expiry_days, now) ==
    IF tape.TapeCreatedDate # NoDate
    THEN AgeDays(now, tape.TapeCreatedDate) > expiry_days
    ELSE ~(expiry_days > ArchiveFallbackDays)

\* is_tape_expired(tape, expiry_days), evaluated at time `now`
IsTapeExpired(tape, expiry_days, now) ==
    IF tape.TapeCreatedDate # NoDate
    THEN AgeDays(now, tape.TapeCreatedDate) > expiry_days
    ELSE IF tape.TapeStatus = "ARCHIVED"
         THEN IF expiry_days > ArchiveFallbackDays THEN FALSE ELSE TRUE
         ELSE FALSE

----------------------------------------------------------------------------
(* VirtualTapeManager: listing and detail resolution                       *)
(* A function returns [w, ...]; when w.exit is set, SystemExit is          *)
(* propagating (no "except Exception" catches it) and the rest is unused.  *)

Arns(ts) == [i \in 1..Len(ts) |-> ts[i].TapeARN]

\* index of the first element of ts with this ARN, 0 if none
FirstWithArn(ts, arn) ==
    IF \E i \in 1..Len(ts) : ts[i].TapeARN = arn
    THEN CHOOSE i \in 1..Len(ts) :
            /\ ts[i].TapeARN = arn
            /\ \A j \in 1..(i - 1) : ts[j].TapeARN # arn
    ELSE 0

\* list_virtual_tapes, lines 275-283: the basic tapes of the page whose
\* detailed record names the requested gateway, in the order of the details
RECURSIVE FilterByGateway(_, _, _)
FilterByGateway(detailed, page, gateway_arn) ==
    IF detailed = <<>> THEN <<>>
    ELSE LET d == Head(detailed)
             i == FirstWithArn(page, d.TapeARN)
         IN (IF d.GatewayARN = gateway_arn /\ i # 0
             THEN <<page[i]>> ELSE <<>>)
            \o FilterByGateway(Tail(detailed), page, gateway_arn)

\* get_tape_details, lines 368-386: the detail records built for archived
\* tapes from the basic listing
ArchivedDetails(tape_arns, basic_tapes, gateway_arn) ==
    LET IsArchived(a) ==
            \E i \in 1..Len(basic_tapes) :
                /\ basic_tapes[i].TapeARN = a
                /\ basic_tapes[i].TapeStatus = "ARCHIVED"
        archived_tape_arns == SelectSeq(tape_arns, IsArchived)
        \* basic_tape_dict keeps the last tape listed under an ARN
        Basic(a) == basic_tapes[CHOOSE i \in 1..Len(basic_tapes) :
                        /\ basic_tapes[i].TapeARN = a
                        /\ \A j \in (i + 1)..Len(basic_tapes) :
                              basic_tapes[j].TapeARN # a]
    IN [i \in 1..Len(archived_tape_arns) |->
          LET b == Basic(archived_tape_arns[i])
          IN [TapeARN |-> b.TapeARN, TapeBarcode |-> b.TapeBarcode,
              TapeStatus |-> b.TapeStatus, GatewayARN |-> gateway_arn,
              TapeCreatedDate |-> NoDate,
              TapeSizeInBytes |-> b.TapeSizeInBytes,
              TapeUsedInBytes |-> b.TapeUsedInBytes]]

\* get_tape_details, lines 357-362: the ARNs not listed as ARCHIVED
ActiveArns(tape_arns, basic_tapes) ==
    LET IsActive(a) ==
            ~ \E i \in 1..Len(basic_tapes) :
                /\ basic_tapes[i].TapeARN = a
                /\ basic_tapes[i].TapeStatus = "ARCHIVED"
    IN SelectSeq(tape_arns, IsActive)

\* get_tape_details, lines 453-477: probe one gateway for the remaining
\* ARNs, batch by batch from offset i.  st = [w, details, remaining].
RECURSIVE ProbeBatches(_, _, _, _)
ProbeBatches(st, gw, remaining_list, i) ==
    IF i >= Len(remaining_list) THEN st
    ELSE LET batch_arns ==
                 SubSeq(remaining_list, i + 1,
                        Min(i + BatchSize, Len(remaining_list)))
             \* r is the outcome of the describe_tapes call for the batch
             Described(r) ==
               LET found ==
                     {r.resp.items[j].TapeARN : j \in 1..Len(r.resp.items)}
                   NotFound(a) == a \notin found
               IN ProbeBatches(
                      IF r.err = OK /\ r.resp.items # <<>>
                      THEN [w |-> r.w,
                            details |-> st.details \o r.resp.items,
                            remaining |-> SelectSeq(st.remaining, NotFound)]
                      ELSE [st EXCEPT !.w = r.w],
                      gw, remaining_list, i + BatchSize)
         IN Described(RetryWithBackoff(st.w, "describe_tapes",
                [gw |-> gw, arns |-> batch_arns, marker |-> NoMarker],
                FALSE, 0))

\* get_tape_details, lines 436-481: probe the gateways from the k-th on
RECURSIVE ProbeGateways(_, _, _)
ProbeGateways(st, gws, k) ==
    IF k > Len(gws) \/ st.remaining = <<>> THEN st
    ELSE ProbeGateways(ProbeBatches(st, gws[k], st.remaining, 0), gws, k + 1)

RECURSIVE ListVirtualTapesFrom(_, _, _, _)
RECURSIVE GetTapeDetails(_, _, _)

\* list_virtual_tapes, the while loop from the page at `marker` on
ListVirtualTapesFrom(w, gateway_arn, marker, all_tapes) ==
    LET \* r is the outcome of the list_tapes call, d of the detail lookup
        \* made for the page when a gateway is given
        Filtered(r, d) ==
          LET page == r.resp.items
              kept == IF gateway_arn # NoGateway
                      THEN FilterByGateway(d.tapes, page, gateway_arn)
                      ELSE page
          IN IF d.w.exit THEN [w |-> d.w, tapes |-> <<>>]
             ELSE IF r.resp.marker = NoMarker
                  THEN [w |-> d.w, tapes |-> all_tapes \o kept]
             ELSE ListVirtualTapesFrom(d.w, gateway_arn, r.resp.marker,
                                       all_tapes \o kept)
        Page(r) ==
          IF r.w.exit THEN [w |-> r.w, tapes |-> <<>>]
          ELSE IF r.err # OK THEN [w |-> r.w, tapes |-> <<>>]
          ELSE Filtered(r,
                 IF gateway_arn # NoGateway /\ r.resp.items # <<>>
                 THEN GetTapeDetails(r.w, Arns(r.resp.items), NoGateway)
                 ELSE [w |-> r.w, tapes |-> <<>>])
    IN Page(RetryWithBackoff(w, "list_tapes",
               [gw |-> NoGateway, arns |-> <<>>, marker |-> marker],
               TRUE, 0))

\* list_virtual_tapes(gateway_arn)
ListVirtualTapes(w, gateway_arn) ==
    ListVirtualTapesFrom(w, gateway_arn, NoMarker, <<>>)

\* get_tape_details(tape_arns, gateway_arn)
GetTapeDetails(w, tape_arns, gateway_arn) ==
    IF tape_arns = <<>> THEN [w |-> w, tapes |-> <<>>]
    ELSE
    LET \* l is what list_virtual_tapes returned
        Listed(l) ==
          LET archived == ArchivedDetails(tape_arns, l.tapes, gateway_arn)
              active_tape_arns == ActiveArns(tape_arns, l.tapes)
              \* a gateway was given: one describe_tapes call on it
              One(one) ==
                [w |-> one.w,
                 tapes |-> IF one.err = OK THEN archived \o one.resp.items
                           ELSE archived]
              \* no gateway given: list the gateways and probe each
              Probed(probed) ==
                [w |-> probed.w, tapes |-> archived \o probed.details]
              Gateways(g) ==
                IF g.err # OK THEN [w |-> g.w, tapes |-> archived]
                ELSE Probed(ProbeGateways(
                               [w |-> g.w, details |-> <<>>,
                                remaining |-> active_tape_arns],
                               g.resp.items, 1))
          IN IF l.w.exit THEN [w |-> l.w, tapes |-> <<>>]
             ELSE IF active_tape_arns = <<>>
                  THEN [w |-> l.w, tapes |-> archived]
             ELSE IF gateway_arn # NoGateway
                  THEN One(RetryWithBackoff(l.w, "describe_tapes",
                              [gw |-> gateway_arn, arns |-> active_tape_arns,
                               marker |-> NoMarker], FALSE, 0))
             ELSE Gateways(RetryWithBackoff(l.w, "list_gateways", NoArgs,
                                            FALSE, 0))
    IN Listed(ListVirtualTapes(w, gateway_arn))

----------------------------------------------------------------------------
(* VirtualTapeManager: deletion of one tape *)

\* the owner search taking the first gateway listed without probing it
FindOwnerGatewayFirstListed(w, gws, k, tape_arn) ==
    IF k > Len(gws) THEN [w |-> w, gw |-> NoGateway]
    ELSE [w |-> w, gw |-> gws[k]]

\* delete_virtual_tape, lines 638-662: the first gateway, from the k-th on,
\* whose describe_tapes answer for the tape is not empty; NoGateway if none
RECURSIVE FindOwnerGateway(_, _, _, _)
FindOwnerGateway(w, gws, k, tape_arn) ==
    IF k > Len(gws) THEN [w |-> w, gw |-> NoGateway]
    ELSE LET Described(r) ==
               IF r.err = OK /\ r.resp.items # <<>>
               THEN [w |-> r.w, gw |-> gws[k]]
               ELSE FindOwnerGateway(r.w, gws, k + 1, tape_arn)
         IN Described(RetryWithBackoff(w, "describe_tapes",
                [gw |-> gws[k], arns |-> <<tape_arn>>,
                 marker |-> NoMarker], FALSE, 0))

\* delete_virtual_tape going to the gateways without looking the tape up in
\* the current listing
DeleteVirtualTapeWithoutListing(w, tape_arn) ==
    LET Deleted(x) == [w |-> x.w, ok |-> x.err = OK]
        Owner(o) ==
          IF o.gw = NoGateway THEN [w |-> o.w, ok |-> FALSE]
          ELSE Deleted(RetryWithBackoff(o.w, "delete_tape",
                          [gw |-> o.gw, arns |-> <<tape_arn>>,
                           marker |-> NoMarker], FALSE, 0))
        Gateways(g) ==
          IF g.err # OK THEN [w |-> g.w, ok |-> FALSE]
          ELSE Owner(FindOwnerGateway(g.w, g.resp.items, 1, tape_arn))
    IN Gateways(RetryWithBackoff(w, "list_gateways", NoArgs, FALSE, 0))

\* delete_virtual_tape(tape_arn): [w, ok]
DeleteVirtualTape(w, tape_arn) ==
    LET \* x is the outcome of delete_tape_archive or of delete_tape
        Deleted(x) == [w |-> x.w, ok |-> x.err = OK]
        \* o is the gateway found to own the tape
        Owner(o) ==
          IF o.gw = NoGateway THEN [w |-> o.w, ok |-> FALSE]
          ELSE Deleted(RetryWithBackoff(o.w, "delete_tape",
                          [gw |-> o.gw, arns |-> <<tape_arn>>,
                           marker |-> NoMarker], FALSE, 0))
        \* g is the outcome of list_gateways
        Gateways(g) ==
          IF g.err # OK THEN [w |-> g.w, ok |-> FALSE]
          ELSE Owner(FindOwnerGateway(g.w, g.resp.items, 1, tape_arn))
        \* l is what list_virtual_tapes returned
        Listed(l) ==
          LET i == FirstWithArn(l.tapes, tape_arn)
              tape_status == l.tapes[i].TapeStatus
          IN IF l.w.exit THEN [w |-> l.w, ok |-> FALSE]
             ELSE IF i = 0 THEN [w |-> l.w, ok |-> FALSE]
             ELSE IF tape_status = "ARCHIVED"
                  THEN Deleted(RetryWithBackoff(l.w, "delete_tape_archive",
                                  [gw |-> NoGateway, arns |-> <<tape_arn>>,
                                   marker |-> NoMarker], FALSE, 0))
             ELSE Gateways(RetryWithBackoff(l.w, "list_gateways", NoArgs,
                                            FALSE, 0))
    IN Listed(ListVirtualTapes(w, NoGateway))

----------------------------------------------------------------------------
(* VirtualTapeManager: the orchestrators                                   *)
(* An entry of errors is [kind, id, status].  The fields selected and      *)
(* attempted of a result are not returned by the code: they record the     *)
(* local expired_tapes list and the tapes delete_virtual_tape was called   *)
(* for.  When sys.exit ends the run inside a deletion, res is the local    *)
(* results dictionary as it stood at that moment.                          *)

Error(kind, id, status) == [kind |-> kind, id |-> id, status |-> status]

\* line 910 letting every status through
ExpiredDeletableAnyStatus == Statuses
\* line 910: statuses delete_expired_tapes deletes through a gateway
ExpiredDeletable == {"AVAILABLE", "RETRIEVED"}
\* line 1065: statuses delete_specific_tapes deletes
SpecificDeletable == {"AVAILABLE", "ARCHIVED"}

\* delete_expired_tapes, lines 882-894: one error per archived expired tape
ArchivedErrors(expired_tapes) ==
    LET IsArchived(t) == t.TapeStatus = "ARCHIVED"
        arch == SelectSeq(expired_tapes, IsArchived)
    IN [i \in 1..Len(arch) |->
          Error("archived_cannot_delete", arch[i].TapeBarcode, "ARCHIVED")]

\* the loop of lines 899-920 counting a skipped tape as a failed deletion
RECURSIVE DeleteActiveExpiredCountingSkipped(_, _, _)
DeleteActiveExpiredCountingSkipped(st, ts, dry_run) ==
    IF ts = <<>> \/ st.w.exit THEN st
    ELSE LET tape == Head(ts)
             Attempted(d) ==
               [w |-> d.w,
                res |-> IF d.w.exit
                  THEN [st.res EXCEPT
                          !.attempted = Append(@, tape.TapeARN)]
                  ELSE IF d.ok
                  THEN [st.res EXCEPT
                          !.deleted_tapes = @ + 1,
                          !.attempted = Append(@, tape.TapeARN)]
                  ELSE [st.res EXCEPT
                          !.failed_deletions = @ + 1,
                          !.attempted = Append(@, tape.TapeARN),
                          !.errors = Append(@,
                              Error("failed", tape.TapeBarcode,
                                    tape.TapeStatus))]]
             next ==
               IF dry_run
               THEN [st EXCEPT !.res.deleted_tapes = @ + 1]
               ELSE IF tape.TapeStatus \in ExpiredDeletable
               THEN Attempted(DeleteVirtualTape(st.w, tape.TapeARN))
               ELSE [st EXCEPT !.res.failed_deletions = @ + 1,
                               !.res.errors = Append(@,
                        Error("not_deletable", tape.TapeBarcode,
                              tape.TapeStatus))]
         IN DeleteActiveExpiredCountingSkipped(next, Tail(ts), dry_run)

\* delete_expired_tapes, lines 899-920: the active expired tapes in order.
\* st = [w, res]
RECURSIVE DeleteActiveExpired(_, _, _)
DeleteActiveExpired(st, ts, dry_run) ==
    IF ts = <<>> \/ st.w.exit THEN st
    ELSE LET tape == Head(ts)
             \* d is what delete_virtual_tape returned
             Attempted(d) ==
               [w |-> d.w,
                res |-> IF d.w.exit
                  THEN [st.res EXCEPT
                          !.attempted = Append(@, tape.TapeARN)]
                  ELSE IF d.ok
                  THEN [st.res EXCEPT
                          !.deleted_tapes = @ + 1,
                          !.attempted = Append(@, tape.TapeARN)]
                  ELSE [st.res EXCEPT
                          !.failed_deletions = @ + 1,
                          !.attempted = Append(@, tape.TapeARN),
                          !.errors = Append(@,
                              Error("failed", tape.TapeBarcode,
                                    tape.TapeStatus))]]
             next ==
               IF dry_run
               THEN [st EXCEPT !.res.deleted_tapes = @ + 1]
               ELSE IF tape.TapeStatus \in ExpiredDeletable
               THEN Attempted(DeleteVirtualTape(st.w, tape.TapeARN))
               ELSE [st EXCEPT !.res.errors = Append(@,
                        Error("not_deletable", tape.TapeBarcode,
                              tape.TapeStatus))]
         IN DeleteActiveExpired(next, Tail(ts), dry_run)

\* delete_expired_tapes, lines 923-946: the archived expired tapes in order
RECURSIVE DeleteArchivedExpired(_, _, _)
DeleteArchivedExpired(st, ts, dry_run) ==
    IF ts = <<>> \/ st.w.exit THEN st
    ELSE LET tape == Head(ts)
             \* d is what delete_virtual_tape returned
             Attempted(d) ==
               [w |-> d.w,
                res |-> IF d.w.exit
                  THEN [st.res EXCEPT
                          !.attempted = Append(@, tape.TapeARN)]
                  ELSE IF d.ok
                  THEN [st.res EXCEPT
                          !.deleted_tapes = @ + 1,
                          !.attempted = Append(@, tape.TapeARN)]
                  ELSE [st.res EXCEPT
                          !.failed_deletions = @ + 1,
                          !.attempted = Append(@, tape.TapeARN),
                          !.errors = Append(@,
                              Error("failed_archived", tape.TapeBarcode,
                                    tape.TapeStatus))]]
             next ==
               IF dry_run
               THEN [st EXCEPT !.res.deleted_tapes = @ + 1]
               ELSE Attempted(DeleteVirtualTape(st.w, tape.TapeARN))
         IN DeleteArchivedExpired(next, Tail(ts), dry_run)

\* delete_expired_tapes(expiry_days, dry_run, gateway_arn) run at time now
DeleteExpiredTapes(w, expiry_days, dry_run, gateway_arn, now) ==
    LET results == [total_tapes |-> 0, expired_tapes |-> 0,
                    deleted_tapes |-> 0, failed_deletions |-> 0,
                    errors |-> <<>>, selected |-> <<>>, attempted |-> <<>>]
        Expired(t) == IsTapeExpired(t, expiry_days, now)
        IsArchived(t) == t.TapeStatus = "ARCHIVED"
        IsActive(t) == t.TapeStatus # "ARCHIVED"
        \* l is what list_virtual_tapes returned, d what get_tape_details
        Detailed(l, d) ==
          LET expired_tapes == SelectSeq(d.tapes, Expired)
              st0 == [w |-> d.w,
                      res |-> [results EXCEPT
                                 !.total_tapes = Len(l.tapes),
                                 !.expired_tapes = Len(expired_tapes),
                                 !.selected = expired_tapes,
                                 !.errors = ArchivedErrors(expired_tapes)]]
          IN IF d.w.exit THEN [w |-> d.w, res |-> results]
             ELSE DeleteArchivedExpired(
                    DeleteActiveExpired(st0,
                        SelectSeq(expired_tapes, IsActive), dry_run),
                    SelectSeq(expired_tapes, IsArchived), dry_run)
        Listed(l) ==
          IF l.w.exit THEN [w |-> l.w, res |-> results]
          ELSE IF l.tapes = <<>> THEN [w |-> l.w, res |-> results]
          ELSE Detailed(l, GetTapeDetails(l.w, Arns(l.tapes), gateway_arn))
    IN Listed(ListVirtualTapes(w, gateway_arn))

\* tape_identifier.strip(): identifiers are barcodes or ARNs, possibly
\* written with surrounding blanks
Strip(id) ==
    CASE id = " B1 " -> "B1"
      [] id = " t1 " -> "t1"
      [] OTHER -> id

\* delete_specific_tapes, lines 1026-1030: the tape an identifier names, as
\* an index into detailed_tapes, 0 if none.  Each dictionary keeps the last
\* tape entered under a key; the ARN dictionary is consulted first.
LookupTape(detailed_tapes, id) ==
    LET n == Len(detailed_tapes)
        LastWith(P(_)) ==
            IF \E i \in 1..n : P(detailed_tapes[i])
            THEN CHOOSE i \in 1..n :
                    /\ P(detailed_tapes[i])
                    /\ \A j \in (i + 1)..n : ~P(detailed_tapes[j])
            ELSE 0
        ByArn(t) == t.TapeARN = id
        ByBarcode(t) == t.TapeBarcode = id
    IN IF LastWith(ByArn) # 0 THEN LastWith(ByArn) ELSE LastWith(ByBarcode)

\* delete_specific_tapes, lines 1021-1082: the identifiers in order
RECURSIVE DeleteListed(_, _, _, _)
DeleteListed(st, detailed_tapes, ids, dry_run) ==
    IF ids = <<>> \/ st.w.exit THEN st
    ELSE LET tape_identifier == Strip(Head(ids))
             i == LookupTape(detailed_tapes, tape_identifier)
             tape == detailed_tapes[i]
             info(action, success) ==
                 [identifier |-> tape_identifier, arn |-> tape.TapeARN,
                  barcode |-> tape.TapeBarcode, status |-> tape.TapeStatus,
                  action_taken |-> action, success |-> success]
             found == [st.res EXCEPT !.tapes_found = @ + 1]
             \* d is what delete_virtual_tape returned
             Attempted(d) ==
               [w |-> d.w,
                res |-> IF d.w.exit
                  THEN [found EXCEPT
                          !.attempted = Append(@, tape.TapeARN)]
                  ELSE IF d.ok
                  THEN [found EXCEPT
                          !.deleted_tapes = @ + 1,
                          !.attempted = Append(@, tape.TapeARN),
                          !.processed_tapes =
                              Append(@, info("deleted", TRUE))]
                  ELSE [found EXCEPT
                          !.failed_deletions = @ + 1,
                          !.attempted = Append(@, tape.TapeARN),
                          !.errors = Append(@,
                              Error("failed", tape.TapeBarcode,
                                    tape.TapeStatus)),
                          !.processed_tapes =
                              Append(@, info("delete_failed", FALSE))]]
             next ==
               IF i = 0
               THEN [st EXCEPT
                       !.res.tapes_not_found = @ + 1,
                       !.res.not_found_tapes = Append(@, tape_identifier),
                       !.res.errors = Append(@,
                           Error("not_found", tape_identifier, "Unknown"))]
               ELSE IF dry_run
               THEN [st EXCEPT !.res =
                       [found EXCEPT
                          !.deleted_tapes = @ + 1,
                          !.processed_tapes =
                              Append(@, info("would_delete", TRUE))]]
               ELSE IF tape.TapeStatus \in SpecificDeletable
               THEN Attempted(DeleteVirtualTape(st.w, tape.TapeARN))
               ELSE [st EXCEPT !.res =
                       [found EXCEPT
                          !.errors = Append(@,
                              Error("not_deletable", tape.TapeBarcode,
                                    tape.TapeStatus)),
                          !.processed_tapes =
                              Append(@, info("skipped_not_deletable",
                                             FALSE))]]
         IN DeleteListed(next, detailed_tapes, Tail(ids), dry_run)

\* delete_specific_tapes deleting whatever dry_run says
DeleteSpecificTapesIgnoringDryRun(w, tape_list, dry_run) ==
    LET results == [total_tapes_requested |-> Len(tape_list),
                    tapes_found |-> 0, tapes_not_found |-> 0,
                    deleted_tapes |-> 0, failed_deletions |-> 0,
                    errors |-> <<>>, not_found_tapes |-> <<>>,
                    processed_tapes |-> <<>>, attempted |-> <<>>]
        Detailed(d) ==
          IF d.w.exit THEN [w |-> d.w, res |-> results]
          ELSE DeleteListed([w |-> d.w, res |-> results], d.tapes,
                            tape_list, FALSE)
        Listed(l) ==
          IF l.w.exit \/ l.tapes = <<>> THEN [w |-> l.w, res |-> results]
          ELSE Detailed(GetTapeDetails(l.w, Arns(l.tapes), NoGateway))
    IN Listed(ListVirtualTapes(w, NoGateway))

\* delete_specific_tapes(tape_list, dry_run)
DeleteSpecificTapes(w, tape_list, dry_run) ==
    LET results == [total_tapes_requested |-> Len(tape_list),
                    tapes_found |-> 0, tapes_not_found |-> 0,
                    deleted_tapes |-> 0, failed_deletions |-> 0,
                    errors |-> <<>>, not_found_tapes |-> <<>>,
                    processed_tapes |-> <<>>, attempted |-> <<>>]
        \* d is what get_tape_details returned
        Detailed(d) ==
          IF d.w.exit THEN [w |-> d.w, res |-> results]
          ELSE DeleteListed([w |-> d.w, res |-> results], d.tapes,
                            tape_list, dry_run)
        \* l is what list_virtual_tapes returned
        Listed(l) ==
          IF l.w.exit THEN [w |-> l.w, res |-> results]
          ELSE IF l.tapes = <<>>
               THEN [w |-> l.w,
                     res |-> [results EXCEPT !.errors =
                                 <<Error("no_tapes", "", "Unknown")>>]]
          ELSE Detailed(GetTapeDetails(l.w, Arns(l.tapes), NoGateway))
    IN Listed(ListVirtualTapes(w, NoGateway))

\* list_all_tapes_detailed, lines 746-787: the loop over detailed_tapes.
\* status_filter is a set of statuses, empty for None.
RECURSIVE InventoryLoop(_, _, _)
InventoryLoop(results, ts, status_filter) ==
    IF ts = <<>> THEN results
    ELSE LET tape == Head(ts)
             tape_status == tape.TapeStatus
             tape_record ==
               [arn |-> tape.TapeARN, barcode |-> tape.TapeBarcode,
                status |-> tape_status,
                size_bytes |-> tape.TapeSizeInBytes,
                used_bytes |-> tape.TapeUsedInBytes,
                gateway_arn |-> tape.GatewayARN]
             by == results.tapes_by_status
             next ==
               IF status_filter # {} /\ tape_status \notin status_filter
               THEN results
               ELSE [results EXCEPT
                       !.tape_details = Append(@, tape_record),
                       !.tapes_by_status =
                           [s \in DOMAIN by \cup {tape_status} |->
                               IF s # tape_status THEN by[s]
                               ELSE IF s \in DOMAIN by
                                    THEN Append(by[s], tape_record)
                               ELSE <<tape_record>>],
                       !.total_size_bytes = @ + tape.TapeSizeInBytes,
                       !.total_used_bytes = @ + tape.TapeUsedInBytes]
         IN InventoryLoop(next, Tail(ts), status_filter)

\* list_all_tapes_detailed(gateway_arn, status_filter)
ListAllTapesDetailed(w, gateway_arn, status_filter) ==
    LET results == [total_tapes |-> 0, filtered_tapes |-> 0,
                    tapes_by_status |-> [s \in {} |-> <<>>],
                    tape_details |-> <<>>,
                    total_size_bytes |-> 0, total_used_bytes |-> 0,
                    errors |-> <<>>]
        Counted(res) ==
          [res EXCEPT !.filtered_tapes = Len(res.tape_details)]
        \* l is what list_virtual_tapes returned, d what get_tape_details
        Detailed(l, d) ==
          IF d.w.exit THEN [w |-> d.w, res |-> results]
          ELSE [w |-> d.w,
                res |-> Counted(InventoryLoop(
                           [results EXCEPT !.total_tapes = Len(l.tapes)],
                           d.tapes, status_filter))]
        Listed(l) ==
          IF l.w.exit THEN [w |-> l.w, res |-> results]
          ELSE IF l.tapes = <<>> THEN [w |-> l.w, res |-> results]
          ELSE Detailed(l, GetTapeDetails(l.w, Arns(l.tapes), gateway_arn))
    IN Listed(ListVirtualTapes(w, gateway_arn))

----------------------------------------------------------------------------
(* TapeManager (tape_manager.py) *)

\* list_tapes returning after the first page, whatever its marker
TmListTapesFirstPage(w, status_filter, marker, all_tapes) ==
    LET InFilter(t) == t.TapeStatus \in status_filter
        Page(r) ==
          LET page == IF status_filter # {}
                      THEN SelectSeq(r.resp.items, InFilter)
                      ELSE r.resp.items
          IN IF r.err # OK THEN [w |-> r.w, tapes |-> <<>>]
             ELSE [w |-> r.w, tapes |-> all_tapes \o page]
    IN Page(RetryApiCall(w, "list_tapes",
               [gw |-> NoGateway, arns |-> <<>>, marker |-> marker], 0))

\* list_tapes, the while loop from the page at `marker` on; status_filter
\* is a set of statuses, empty for None.  An exception anywhere returns [].
RECURSIVE TmListTapesFrom(_, _, _, _)
TmListTapesFrom(w, status_filter, marker, all_tapes) ==
    LET InFilter(t) == t.TapeStatus \in status_filter
        \* r is the outcome of the list_tapes call
        Page(r) ==
          LET page == IF status_filter # {}
                      THEN SelectSeq(r.resp.items, InFilter)
                      ELSE r.resp.items
          IN IF r.err # OK THEN [w |-> r.w, tapes |-> <<>>]
             ELSE IF r.resp.marker = NoMarker
                  THEN [w |-> r.w, tapes |-> all_tapes \o page]
             ELSE TmListTapesFrom(r.w, status_filter, r.resp.marker,
                                  all_tapes \o page)
    IN Page(RetryApiCall(w, "list_tapes",
               [gw |-> NoGateway, arns |-> <<>>, marker |-> marker], 0))

\* list_tapes(status_filter)
TmListTapes(w, status_filter) ==
    TmListTapesFrom(w, status_filter, NoMarker, <<>>)

\* _find_gateway_for_tape probing every gateway and returning the last one
\* that knows the tape
RECURSIVE TmProbeGatewaysLastMatch(_, _, _, _)
TmProbeGatewaysLastMatch(w, gws, k, tape_arn) ==
    IF k > Len(gws) THEN [w |-> w, gw |-> NoGateway]
    ELSE LET Later(r, f) ==
               IF f.gw = NoGateway /\ r.err = OK /\ r.resp.items # <<>>
               THEN [w |-> f.w, gw |-> gws[k]]
               ELSE f
             Described(r) ==
               Later(r, TmProbeGatewaysLastMatch(r.w, gws, k + 1, tape_arn))
         IN Described(RemoteCall(w, "describe_tapes",
                [gw |-> gws[k], arns |-> <<tape_arn>>,
                 marker |-> NoMarker], FALSE))

\* _find_gateway_for_tape, lines 125-140: describe_tapes is called on the
\* client directly, and any exception moves on to the next gateway
RECURSIVE TmProbeGateways(_, _, _, _)
TmProbeGateways(w, gws, k, tape_arn) ==
    IF k > Len(gws) THEN [w |-> w, gw |-> NoGateway]
    ELSE LET Described(r) ==
               IF r.err = OK /\ r.resp.items # <<>>
               THEN [w |-> r.w, gw |-> gws[k]]
               ELSE TmProbeGateways(r.w, gws, k + 1, tape_arn)
         IN Described(RemoteCall(w, "describe_tapes",
                [gw |-> gws[k], arns |-> <<tape_arn>>,
                 marker |-> NoMarker], FALSE))

\* _find_gateway_for_tape(tape_arn)
FindGatewayForTape(w, tape_arn) ==
    LET Gateways(g) ==
          IF g.err # OK THEN [w |-> g.w, gw |-> NoGateway]
          ELSE TmProbeGateways(g.w, g.resp.items, 1, tape_arn)
    IN Gateways(RetryApiCall(w, "list_gateways", NoArgs, 0))

\* delete_tape(tape_arn, tape_status): [w, ok]
TmDeleteTape(w, tape_arn, tape_status) ==
    LET \* x is the outcome of delete_tape_archive or of delete_tape
        Deleted(x) == [w |-> x.w, ok |-> x.err = OK]
        \* f is what _find_gateway_for_tape returned
        Owner(f) ==
          IF f.gw = NoGateway THEN [w |-> f.w, ok |-> FALSE]
          ELSE Deleted(RetryApiCall(f.w, "delete_tape",
                          [gw |-> f.gw, arns |-> <<tape_arn>>,
                           marker |-> NoMarker], 0))
    IN IF tape_status = "ARCHIVED"
       THEN Deleted(RetryApiCall(w, "delete_tape_archive",
                       [gw |-> NoGateway, arns |-> <<tape_arn>>,
                        marker |-> NoMarker], 0))
       ELSE Owner(FindGatewayForTape(w, tape_arn))

----------------------------------------------------------------------------
(* tape_operations.py *)

\* delete_expired_tapes, lines 77-96: the listed tapes in order
RECURSIVE OpsDeleteExpiredLoop(_, _, _)
OpsDeleteExpiredLoop(st, ts, dry_run) ==
    IF ts = <<>> THEN st
    ELSE LET tape == Head(ts)
             picked == [st.res EXCEPT !.expired_tapes = @ + 1,
                                      !.selected = Append(@, tape)]
             \* d is what manager.delete_tape returned
             Attempted(d) ==
               [w |-> d.w,
                res |-> IF d.ok
                  THEN [picked EXCEPT
                          !.deleted = @ + 1,
                          !.attempted = Append(@, tape.TapeARN)]
                  ELSE [picked EXCEPT
                          !.failed = @ + 1,
                          !.attempted = Append(@, tape.TapeARN),
                          !.errors = Append(@,
                              Error("failed", tape.TapeBarcode,
                                    tape.TapeStatus))]]
             next ==
               IF tape.TapeStatus # "ARCHIVED" THEN st
               ELSE IF dry_run
               THEN [st EXCEPT !.res = [picked EXCEPT !.deleted = @ + 1]]
               ELSE Attempted(TmDeleteTape(st.w, tape.TapeARN,
                                           tape.TapeStatus))
         IN OpsDeleteExpiredLoop(next, Tail(ts), dry_run)

\* delete_expired_tapes deleting whatever dry_run says
OpsDeleteExpiredTapesIgnoringDryRun(w, expiry_days, dry_run) ==
    LET Listed(l) ==
          LET results == [total_tapes |-> Len(l.tapes), expired_tapes |-> 0,
                          deleted |-> 0, failed |-> 0, errors |-> <<>>,
                          selected |-> <<>>, attempted |-> <<>>]
          IN OpsDeleteExpiredLoop([w |-> l.w, res |-> results], l.tapes,
                                  FALSE)
    IN Listed(TmListTapes(w, {}))

\* delete_expired_tapes(manager, expiry_days, dry_run)
OpsDeleteExpiredTapes(w, expiry_days, dry_run) ==
    LET \* l is what manager.list_tapes returned
        Listed(l) ==
          LET results == [total_tapes |-> Len(l.tapes), expired_tapes |-> 0,
                          deleted |-> 0, failed |-> 0, errors |-> <<>>,
                          selected |-> <<>>, attempted |-> <<>>]
          IN OpsDeleteExpiredLoop([w |-> l.w, res |-> results], l.tapes,
                                  dry_run)
    IN Listed(TmListTapes(w, {}))

\* delete_specific_tapes, lines 116-123 and 135: the tape an identifier
\* names, as an index into all_tapes, 0 if none.  One dictionary holds ARNs
\* and barcodes; a later entry replaces an earlier one under the same key.
OpsLookupTape(all_tapes, id) ==
    IF \E i \in 1..Len(all_tapes) :
          all_tapes[i].TapeARN = id \/ all_tapes[i].TapeBarcode = id
    THEN CHOOSE i \in 1..Len(all_tapes) :
            /\ all_tapes[i].TapeARN = id \/ all_tapes[i].TapeBarcode = id
            /\ \A j \in (i + 1)..Len(all_tapes) :
                  all_tapes[j].TapeARN # id /\ all_tapes[j].TapeBarcode # id
    ELSE 0

\* delete_specific_tapes, lines 134-157: the identifiers in order
RECURSIVE OpsDeleteListed(_, _, _, _)
OpsDeleteListed(st, all_tapes, ids, dry_run) ==
    IF ids = <<>> THEN st
    ELSE LET identifier == Head(ids)
             i == OpsLookupTape(all_tapes, identifier)
             tape == all_tapes[i]
             found == [st.res EXCEPT !.found = @ + 1]
             \* d is what manager.delete_tape returned
             Attempted(d) ==
               [w |-> d.w,
                res |-> IF d.ok
                  THEN [found EXCEPT
                          !.deleted = @ + 1,
                          !.attempted = Append(@, tape.TapeARN)]
                  ELSE [found EXCEPT
                          !.failed = @ + 1,
                          !.attempted = Append(@, tape.TapeARN),
                          !.errors = Append(@,
                              Error("failed", tape.TapeBarcode,
                                    tape.TapeStatus))]]
             next ==
               IF i = 0
               THEN [st EXCEPT
                       !.res.not_found = @ + 1,
                       !.res.errors = Append(@,
                           Error("not_found", identifier, "Unknown"))]
               ELSE IF dry_run
               THEN [st EXCEPT !.res = [found EXCEPT !.deleted = @ + 1]]
               ELSE Attempted(TmDeleteTape(st.w, tape.TapeARN,
                                           tape.TapeStatus))
         IN OpsDeleteListed(next, all_tapes, Tail(ids), dry_run)

\* delete_specific_tapes(manager, tape_identifiers, dry_run)
OpsDeleteSpecificTapes(w, tape_identifiers, dry_run) ==
    LET results == [requested |-> Len(tape_identifiers), found |-> 0,
                    not_found |-> 0, deleted |-> 0, failed |-> 0,
                    errors |-> <<>>, attempted |-> <<>>]
        \* l is what manager.list_tapes returned
        Listed(l) ==
          OpsDeleteListed([w |-> l.w, res |-> results], l.tapes,
                          tape_identifiers, dry_run)
    IN Listed(TmListTapes(w, {}))

\* inventory_tapes, lines 38-43: the tapes grouped by status
RECURSIVE GroupByStatus(_, _)
GroupByStatus(by_status, ts) ==
    IF ts = <<>> THEN by_status
    ELSE LET tape == Head(ts)
             status == tape.TapeStatus
         IN GroupByStatus(
               [s \in DOMAIN by_status \cup {status} |->
                   IF s # status THEN by_status[s]
                   ELSE IF s \in DOMAIN by_status
                        THEN Append(by_status[s], tape)
                   ELSE <<tape>>],
               Tail(ts))

\* inventory_tapes(manager, status_filter)
InventoryTapes(w, status_filter) ==
    LET Grouped(all, ts) ==
          [w |-> ts.w,
           res |-> [total |-> Len(ts.tapes),
                    total_all |-> Len(all.tapes),
                    by_status |-> GroupByStatus([s \in {} |-> <<>>],
                                                ts.tapes),
                    tapes |-> ts.tapes,
                    all_statuses |->
                        {all.tapes[i].TapeStatus : i \in 1..Len(all.tapes)},
                    filter_applied |-> status_filter # {}]]
        \* all is what manager.list_tapes(None) returned
        Listed(all) ==
          Grouped(all, IF status_filter # {}
                       THEN TmListTapes(all.w, status_filter)
                       ELSE all)
    IN Listed(TmListTapes(w, {}))

----------------------------------------------------------------------------
(* Running one operation *)

\* the world at the start of an operation whose remote attempts fail as sc says
NewWorld(sc) ==
    [inv |-> tapes, gws |-> gateways, script |-> sc, n |-> 0,
     log |-> <<>>, sleeps |-> <<>>, exit |-> FALSE]

\* the state after operation c ended as r = [w, res]: in world w with
\* return value res
Commit(r, c) ==
    /\ tapes' = r.w.inv
    /\ gateways' = r.w.gws
    /\ script' = r.w.script
    /\ call' = c
    /\ log' = r.w.log
    /\ sleeps' = r.w.sleeps
    /\ result' = r.res
    /\ exited' = r.w.exit
    /\ runs' = runs + 1
    /\ previous' = [call |-> call, result |-> result, exited |-> exited]

NoCall == [name |-> "none"]
NoResult == [err |-> OK]
NoPrevious == [call |-> NoCall, result |-> NoResult, exited |-> FALSE]

\* a tape of the remote inventory
Tape(arn, barcode, status, gw, created) ==
    [TapeARN |-> arn, TapeBarcode |-> barcode, TapeStatus |-> status,
     GatewayARN |-> gw, TapeCreatedDate |-> created,
     TapeSizeInBytes |-> 100, TapeUsedInBytes |-> 40]

----------------------------------------------------------------------------
(* Specification Spec: one run of one of the four delete orchestrators     *)
(* against a remote inventory, with remote attempts that may fail          *)

\* ARN and barcode of the k-th tape
TapeArn(k) == CASE k = 1 -> "t1" [] k = 2 -> "t2" [] k = 3 -> "t3"
                [] OTHER -> "t4"
TapeBarcode(k) == CASE k = 1 -> "B1" [] k = 2 -> "B2" [] k = 3 -> "B3"
                    [] OTHER -> "B4"

Old == Now - 90 * SecondsPerDay
Recent == Now - 10 * SecondsPerDay

\* what the k-th tape may be: the first tape takes every status, with or
\* without an owning gateway and a creation date; the others a few
Profiles(k) ==
    IF k = 1
    THEN {[status |-> "ARCHIVED", gw |-> NoGateway, created |-> NoDate]}
         \cup [status : Statuses \ {"ARCHIVED"}, gw : {"g2", NoGateway},
               created : {NoDate, Old}]
    ELSE IF k = 2
    THEN {[status |-> "ARCHIVED", gw |-> NoGateway, created |-> NoDate],
          [status |-> "AVAILABLE", gw |-> "g1", created |-> Old],
          [status |-> "AVAILABLE", gw |-> "g1", created |-> Recent]}
    ELSE {[status |-> "RETRIEVED", gw |-> "g1", created |-> Old]}

Inventories ==
    UNION {{[k \in 1..n |->
                Tape(TapeArn(k), TapeBarcode(k), f[k].status, f[k].gw,
                     f[k].created)] :
            f \in {g \in [1..n -> UNION {Profiles(k) : k \in 1..n}] :
                      \A k \in 1..n : g[k] \in Profiles(k)}} :
           n \in 0..MaxTapes}

\* the first `len` attempts from the `at`-th on fail with `code`
Burst(at, len, code) ==
    [i \in 1..(at + len - 1) |-> IF i < at THEN OK ELSE code]

\* no failure; one permanent failure; a rate limit that clears after one
\* attempt; a rate limit that outlasts the retries
Scripts ==
    {<<>>} \cup
    UNION {{Burst(at, 1, "AccessDeniedException"),
            Burst(at, 1, "ThrottlingException"),
            Burst(at, MAX_RETRIES, "ThrottlingException")} :
           at \in 1..MaxFaultAt}

ThresholdDays == {30, ArchiveFallbackDays + 1}

Identifiers == {"B1", "t2", "zz"}
IdLists == UNION {[1..n -> Identifiers] : n \in 1..MaxIds}

Init ==
    /\ tapes \in Inventories
    /\ gateways = <<"g1", "g2">>
    /\ script = <<>>
    /\ call = NoCall
    /\ log = <<>>
    /\ sleeps = <<>>
    /\ result = NoResult
    /\ exited = FALSE
    /\ runs = 0
    /\ previous = NoPrevious

Run(name, dry_run, expiry_days, gateway_arn, tape_list) ==
    [name |-> name, dry_run |-> dry_run, expiry_days |-> expiry_days,
     gateway_arn |-> gateway_arn, tape_list |-> tape_list,
     inventory |-> tapes]

\* VirtualTapeManager.delete_expired_tapes
VtmDeleteExpired ==
    /\ runs = 0
    /\ \E sc \in Scripts, dry_run \in BOOLEAN, expiry_days \in ThresholdDays,
          gateway_arn \in {NoGateway, "g1"} :
          Commit(DeleteExpiredTapes(NewWorld(sc), expiry_days, dry_run,
                                    gateway_arn, Now),
                 Run("vtm.delete_expired_tapes", dry_run, expiry_days,
                     gateway_arn, <<>>))

\* VirtualTapeManager.delete_specific_tapes
VtmDeleteSpecific ==
    /\ runs = 0
    /\ \E sc \in Scripts, dry_run \in BOOLEAN, tape_list \in IdLists :
          Commit(DeleteSpecificTapes(NewWorld(sc), tape_list, dry_run),
                 Run("vtm.delete_specific_tapes", dry_run, 0, NoGateway,
                     tape_list))

\* tape_operations.delete_expired_tapes
OpsDeleteExpired ==
    /\ runs = 0
    /\ \E sc \in Scripts, dry_run \in BOOLEAN, expiry_days \in ThresholdDays :
          Commit(OpsDeleteExpiredTapes(NewWorld(sc), expiry_days, dry_run),
                 Run("ops.delete_expired_tapes", dry_run, expiry_days,
                     NoGateway, <<>>))

\* tape_operations.delete_specific_tapes
OpsDeleteSpecific ==
    /\ runs = 0
    /\ \E sc \in Scripts, dry_run \in BOOLEAN, tape_list \in IdLists :
          Commit(OpsDeleteSpecificTapes(NewWorld(sc), tape_list, dry_run),
                 Run("ops.delete_specific_tapes", dry_run, 0, NoGateway,
                     tape_list))

Next ==
    \/ VtmDeleteExpired
    \/ VtmDeleteSpecific
    \/ OpsDeleteExpired
    \/ OpsDeleteSpecific

Spec == Init /\ [][Next]_vars

----------------------------------------------------------------------------
(* Properties of one orchestrator run *)

IsExpiredRun ==
    call.name \in {"vtm.delete_expired_tapes", "ops.delete_expired_tapes"}
IsSpecificRun ==
    call.name \in {"vtm.delete_specific_tapes", "ops.delete_specific_tapes"}
IsDeleteRun == IsExpiredRun \/ IsSpecificRun

DeleteOps == {"delete_tape", "delete_tape_archive"}
Deletable == {"AVAILABLE", "RETRIEVED", "ARCHIVED"}

\* the tape with this ARN as it was when the run started
InventoryTape(arn) == call.inventory[FirstWithArn(call.inventory, arn)]

SelectedArns == {result.selected[i].TapeARN : i \in 1..Len(result.selected)}

CountErrors(kind) ==
    Cardinality({i \in 1..Len(result.errors) : result.errors[i].kind = kind})

\* C1: a dry run issues no delete_tape and no delete_tape_archive call,
\* in delete-expired and delete-specific mode of either implementation,
\* whatever the inventory and the remote responses; the remote inventory is
\* left as it was.
DryRunIssuesNoDelete ==
    (IsDeleteRun /\ call.dry_run) =>
        /\ \A i \in 1..Len(log) : log[i].op \notin DeleteOps
        /\ tapes = call.inventory

\* C1 witness: a dry run that met a remote failure, matched a tape and
\* counted it as would-delete
DryRunCountedWouldDelete ==
    /\ call.name = "vtm.delete_specific_tapes"
    /\ call.dry_run
    /\ ~exited
    /\ \E i \in 1..Len(log) : log[i].out # OK
    /\ result.deleted_tapes >= 1

\* C2: in execute mode no delete call is issued for a tape whose status is
\* CREATING, IN_TRANSIT_TO_VTS, DELETING, DELETED, IRRECOVERABLE or
\* RECOVERING, in any of the orchestrators.
NonDeletableNeverDeleted ==
    (IsDeleteRun /\ ~call.dry_run) =>
        \A i \in 1..Len(log) :
            log[i].op \in DeleteOps =>
                InventoryTape(log[i].arns[1]).TapeStatus \in Deletable

OutcomesRecorded ==
    CASE call.name = "vtm.delete_expired_tapes" ->
           result.deleted_tapes + result.failed_deletions
             + CountErrors("not_deletable") = result.expired_tapes
      [] call.name = "vtm.delete_specific_tapes" ->
           result.deleted_tapes + result.failed_deletions
             + CountErrors("not_deletable") = result.tapes_found
      [] call.name = "ops.delete_expired_tapes" ->
           result.deleted + result.failed = result.expired_tapes
      [] call.name = "ops.delete_specific_tapes" ->
           result.deleted + result.failed = result.found
      [] OTHER -> TRUE

\* C4: in execute mode, once the deletions have begun the run reaches its
\* report with an outcome recorded for every matched tape, whatever
\* failure occurred while a tape was processed.
BatchNeverAborted ==
    (IsDeleteRun /\ ~call.dry_run /\ result.attempted # <<>>) =>
        /\ ~exited
        /\ OutcomesRecorded

\* the run made only list_tapes attempts and the last one failed
DiscoveryFailed ==
    /\ log # <<>>
    /\ \A i \in 1..Len(log) : log[i].op = "list_tapes"
    /\ log[Len(log)].out # OK

\* C5: when list_tapes fails during the initial discovery the process is
\* not terminated, and the run returns an empty result in which the error
\* is recorded.
DiscoveryFailureReported ==
    (IsDeleteRun /\ DiscoveryFailed) =>
        /\ ~exited
        /\ result.errors # <<>>

\* the initial discovery listed the whole inventory
ListedAll ==
    /\ ~exited
    /\ result.total_tapes = Len(call.inventory)

\* C7: an ARCHIVED tape without creation timestamp is selected by the
\* age-based mode exactly when the threshold is at most 3650 days, in
\* either implementation.
ArchivedExpiredIffWithinTenYears ==
    (IsExpiredRun /\ ListedAll) =>
        \A k \in 1..Len(call.inventory) :
            LET t == call.inventory[k]
            IN (t.TapeStatus = "ARCHIVED" /\ t.TapeCreatedDate = NoDate) =>
                   (t.TapeARN \in SelectedArns <=> call.expiry_days <= 3650)

DeletableAlwaysAttempted ==
    (IsDeleteRun /\ ~call.dry_run /\ ~exited) =>
        CASE IsExpiredRun ->
               \A i \in 1..Len(result.selected) :
                   result.selected[i].TapeStatus \in Deletable =>
                       result.selected[i].TapeARN \in Range(result.attempted)
          [] call.name = "vtm.delete_specific_tapes" ->
               \A i \in 1..Len(result.processed_tapes) :
                   result.processed_tapes[i].status \in Deletable =>
                       result.processed_tapes[i].action_taken
                           \in {"deleted", "delete_failed"}
          [] OTHER -> result.found = Len(result.attempted)

----------------------------------------------------------------------------
(* Properties of one explicit-list run *)

IsVtmRun ==
    call.name \in {"vtm.delete_expired_tapes", "vtm.delete_specific_tapes"}

\* the counters of an explicit-list run, under either implementation's names
Requested ==
    IF IsVtmRun THEN result.total_tapes_requested ELSE result.requested
Found == IF IsVtmRun THEN result.tapes_found ELSE result.found
NotFound == IF IsVtmRun THEN result.tapes_not_found ELSE result.not_found

\* the identifiers reported as not found, in the order reported
NotFoundIds ==
    IF IsVtmRun THEN result.not_found_tapes
    ELSE LET IsNotFound(e) == e.kind = "not_found"
             nf == SelectSeq(result.errors, IsNotFound)
         IN [i \in 1..Len(nf) |-> nf[i].id]

\* the identifier is the ARN or the barcode of a tape of the inventory
KnownTape(id) ==
    \E i \in 1..Len(call.inventory) :
        call.inventory[i].TapeARN = id \/ call.inventory[i].TapeBarcode = id

\* C13: when delete-specific returns from a run without remote failures,
\* found + not_found equals the number of identifiers requested, and the
\* not-found list is the requested identifiers matching no tape of the
\* inventory by ARN or barcode, in input order; also on an empty inventory.
ExplicitListAccounted ==
    (IsSpecificRun /\ ~exited /\ script = <<>>) =>
        LET Unknown(id) == ~KnownTape(id)
        IN /\ Requested = Len(call.tape_list)
           /\ Found + NotFound = Len(call.tape_list)
           /\ NotFoundIds = SelectSeq(call.tape_list, Unknown)

\* C14: in a delete-specific run without remote failures, an identifier
\* equal to the ARN or barcode of a listed tape is never reported not found,
\* whether or not a gateway owns the tape.
ListedTapeReportedFound ==
    (IsSpecificRun /\ ~exited /\ script = <<>>) =>
        \A i \in 1..Len(call.tape_list) :
            KnownTape(call.tape_list[i]) =>
                call.tape_list[i] \notin Range(NotFoundIds)

\* C15: in a dry run of VirtualTapeManager the would-delete count is the
\* number of matched tapes whose status is AVAILABLE, RETRIEVED or ARCHIVED.
DryRunCountsDeletableOnly ==
    (IsVtmRun /\ call.dry_run /\ ~exited) =>
        IF IsExpiredRun
        THEN result.deleted_tapes =
               Cardinality({i \in 1..Len(result.selected) :
                              result.selected[i].TapeStatus \in Deletable})
        ELSE result.deleted_tapes =
               Cardinality({i \in 1..Len(result.processed_tapes) :
                              result.processed_tapes[i].status \in Deletable})

\* C17: in an execute run of VirtualTapeManager.delete_expired_tapes, a
\* tape matched by the age filter whose status is none of AVAILABLE,
\* RETRIEVED, ARCHIVED is not handed to delete_virtual_tape, no delete call
\* names it, and errors holds exactly one entry for it, saying it is not
\* deletable; deleted and failed count the attempted tapes only.  Processing
\* such a tape alone changes nothing but errors: no remote call is made, the
\* counters stay, one entry is appended.
NonDeletableSkippedWithOneError ==
    (call.name = "vtm.delete_expired_tapes" /\ ~call.dry_run /\ ~exited) =>
        /\ result.deleted_tapes + result.failed_deletions
              = Len(result.attempted)
        /\ \A i \in 1..Len(result.selected) :
              LET tape == result.selected[i]
                  st0 == [w |-> NewWorld(<<>>), res |-> result]
                  st1 == DeleteActiveExpired(st0, <<tape>>, FALSE)
              IN tape.TapeStatus \notin Deletable =>
                   /\ tape.TapeARN \notin Range(result.attempted)
                   /\ \A j \in 1..Len(log) :
                         log[j].op \in DeleteOps =>
                             log[j].arns # <<tape.TapeARN>>
                   /\ Cardinality({j \in 1..Len(result.errors) :
                         result.errors[j].id = tape.TapeBarcode}) = 1
                   /\ \E j \in 1..Len(result.errors) :
                         result.errors[j] =
                            Error("not_deletable", tape.TapeBarcode,
                                  tape.TapeStatus)
                   /\ st1.w = st0.w
                   /\ st1.res = [result EXCEPT !.errors = Append(@,
                                    Error("not_deletable", tape.TapeBarcode,
                                          tape.TapeStatus))]

\* C17 witness: an execute run matched an AVAILABLE tape and a CREATING one;
\* the first was deleted, the second left on its gateway with one error
CreatingTapeSkipped ==
    /\ call.name = "vtm.delete_expired_tapes"
    /\ ~call.dry_run
    /\ ~exited
    /\ Len(result.selected) = 2
    /\ result.selected[1].TapeStatus = "AVAILABLE"
    /\ result.selected[2].TapeStatus = "CREATING"
    /\ result.deleted_tapes = 1
    /\ result.failed_deletions = 0
    /\ result.errors = <<Error("not_deletable", "B1", "CREATING")>>
    /\ Arns(tapes) = <<"t1">>

\* the run was asked to act on this tape of the inventory
Targeted(t) ==
    CASE call.name = "vtm.delete_expired_tapes" ->
           IsTapeExpired(t, call.expiry_days, Now)
      [] call.name = "ops.delete_expired_tapes" -> FALSE
      [] OTHER ->
           \E i \in 1..Len(call.tape_list) :
               call.tape_list[i] \in {t.TapeARN, t.TapeBarcode}

\* C19: in an execute run without remote failures, a listed tape that is
\* not ARCHIVED, that no gateway owns and that the run was asked to act on
\* gets no delete call and has an entry in errors.
OrphanTapeReported ==
    (IsDeleteRun /\ ~call.dry_run /\ ~exited /\ script = <<>>
       /\ call.gateway_arn = NoGateway) =>
        \A i \in 1..Len(call.inventory) :
            LET t == call.inventory[i]
            IN (/\ t.TapeStatus # "ARCHIVED"
                /\ t.GatewayARN \notin Range(gateways)
                /\ Targeted(t)) =>
                   /\ \A j \in 1..Len(log) :
                         log[j].op \in DeleteOps =>
                             log[j].arns # <<t.TapeARN>>
                   /\ \E j \in 1..Len(result.errors) :
                         result.errors[j].id \in {t.TapeARN, t.TapeBarcode}

\* C22: every remote call of a run is made through a retry wrapper, and a
\* rate-limit failure of an attempt that is not the third in a row of its
\* call is followed by another attempt of the same call.
EveryRemoteCallWrapped ==
    IsDeleteRun =>
        \A i \in 1..Len(log) :
            /\ log[i].wrapped
            /\ (/\ log[i].out \in RateLimitCodes
                /\ ~(/\ i >= MAX_RETRIES
                     /\ \A j \in (i - MAX_RETRIES + 1)..i :
                           log[j].out \in RateLimitCodes)) =>
                  /\ i < Len(log)
                  /\ log[i + 1].op = log[i].op
                  /\ log[i + 1].gw = log[i].gw
                  /\ log[i + 1].arns = log[i].arns
                  /\ log[i + 1].marker = log[i].marker

\* C25: the stages of a run follow one another without going back: after
\* the first delete call of a run no list_tapes call is made.
NoDiscoveryAfterApply ==
    IsDeleteRun =>
        \A i \in 1..Len(log) : \A j \in (i + 1)..Len(log) :
            log[i].op \in DeleteOps => log[j].op # "list_tapes"

\* total, expired, deleted and failed of an age-based result
Counts(res) ==
    IF IsVtmRun
    THEN <<res.total_tapes, res.expired_tapes, res.deleted_tapes,
           res.failed_deletions>>
    ELSE <<res.total_tapes, res.expired_tapes, res.deleted, res.failed>>

\* the expired tapes of an age-based run that are in no deletable status
SkippedExpired ==
    Cardinality({i \in 1..Len(result.selected) :
                    result.selected[i].TapeStatus \notin Deletable})

\* C28: when an age-based run returns, deleted + failed <= expired <= total;
\* a dry run reports no failure; an execute run accounts for every expired
\* tape once: deleted + failed + skipped as non-deletable = expired.
ExpiredCountersConsistent ==
    (IsExpiredRun /\ ~exited) =>
        LET total == Counts(result)[1]
            expired == Counts(result)[2]
            deleted == Counts(result)[3]
            failed == Counts(result)[4]
        IN /\ deleted + failed <= expired
           /\ expired <= total
           /\ expired = Len(result.selected)
           /\ call.dry_run => failed = 0
           /\ ~call.dry_run => deleted + failed + SkippedExpired = expired

\* C28 witness: an execute run over three tapes of which two are expired:
\* one is deleted and the other, a CREATING tape, is skipped
OneDeletedOneSkipped ==
    /\ call.name = "vtm.delete_expired_tapes"
    /\ ~call.dry_run
    /\ ~exited
    /\ result.total_tapes = 3
    /\ result.expired_tapes = 2
    /\ result.deleted_tapes = 1
    /\ result.failed_deletions = 0
    /\ SkippedExpired = 1

\* C29: an age-based run that returns with every expired tape deleted (or,
\* in a dry run, counted as would-delete) returns an empty errors list,
\* also when some of the expired tapes are ARCHIVED.
ErrorsOnlyForFailures ==
    (IsExpiredRun /\ ~exited /\ Counts(result)[3] = Counts(result)[2]) =>
        result.errors = <<>>

\* the i-th remote attempt repeats the attempt before it, which failed with
\* a transient error
IsRetry(i) ==
    /\ i > 1
    /\ log[i - 1].op = log[i].op
    /\ log[i - 1].gw = log[i].gw
    /\ log[i - 1].arns = log[i].arns
    /\ log[i - 1].out \in RateLimitCodes \cup ServiceErrorCodes

\* the delete calls of the run for this tape, retries not counted
DeleteCalls(arn) ==
    {i \in 1..Len(log) :
        log[i].op \in DeleteOps /\ log[i].arns = <<arn>> /\ ~IsRetry(i)}

\* the tapes of the inventory the run was asked to delete by identifier
NamedTapes ==
    {i \in 1..Len(call.inventory) : Targeted(call.inventory[i])}

\* C30: a run issues at most one delete call per tape ARN, and an explicit
\* list counts a tape at most once in deleted, however often the list names
\* it.
AtMostOneDeletePerTape ==
    /\ IsDeleteRun =>
          \A k \in 1..Len(call.inventory) :
              Cardinality(DeleteCalls(call.inventory[k].TapeARN)) <= 1
    /\ (IsSpecificRun /\ ~exited) =>
          (IF IsVtmRun THEN result.deleted_tapes ELSE result.deleted)
              <= Cardinality(NamedTapes)

----------------------------------------------------------------------------
(* Specification SpecRetry: one remote call through either retry wrapper,  *)
(* for every sequence of outcomes of its attempts                          *)

RetryOutcomes ==
    {OK, "ThrottlingException", "RequestLimitExceeded",
     "InternalServerError", "ServiceUnavailableException",
     "AccessDeniedException", "ResourceNotFoundException",
     "InvalidGatewayRequestException", "ValidationException",
     "EndpointConnectionError"}

RetryScripts == [1..(MAX_RETRIES + 1) -> RetryOutcomes]

InitRetry ==
    /\ tapes = <<Tape("t1", "B1", "AVAILABLE", "g1", NoDate)>>
    /\ gateways = <<"g1">>
    /\ script = <<>>
    /\ call = NoCall
    /\ log = <<>>
    /\ sleeps = <<>>
    /\ result = NoResult
    /\ exited = FALSE
    /\ runs = 0
    /\ previous = NoPrevious

\* self._retry_with_backoff(self.storagegateway.list_gateways, critical=...)
CallRetryWithBackoff ==
    /\ runs = 0
    /\ \E sc \in RetryScripts, critical \in BOOLEAN :
          LET Returned(r) ==
                [w |-> r.w, res |-> [err |-> r.err, resp |-> r.resp]]
          IN Commit(Returned(RetryWithBackoff(NewWorld(sc), "list_gateways",
                                              NoArgs, critical, 0)),
                    [name |-> "_retry_with_backoff", critical |-> critical])

\* self._retry_api_call(self.storagegateway.list_gateways)
CallRetryApiCall ==
    /\ runs = 0
    /\ \E sc \in RetryScripts :
          LET Returned(r) ==
                [w |-> r.w, res |-> [err |-> r.err, resp |-> r.resp]]
          IN Commit(Returned(RetryApiCall(NewWorld(sc), "list_gateways",
                                          NoArgs, 0)),
                    [name |-> "_retry_api_call", critical |-> FALSE])

NextRetry == CallRetryWithBackoff \/ CallRetryApiCall

SpecRetry == InitRetry /\ [][NextRetry]_vars

WrapperReturned == call.name \in {"_retry_with_backoff", "_retry_api_call"}

PermanentErrorAttemptedOnce ==
    WrapperReturned =>
        /\ script[1] \in PermanentCodes \cup UnknownCodes \cup OtherErrors =>
              /\ Len(log) = 1
              /\ sleeps = <<>>
              /\ result.err = script[1]
              /\ exited = call.critical
        /\ \A i \in 1..(Len(log) - 1) :
              log[i].out \in RateLimitCodes \cup ServiceErrorCodes
        /\ Len(sleeps) = Len(log) - 1

\* C11 witness: access denied on the first attempt is raised at once although
\* a second attempt would have succeeded
AccessDeniedRaisedAtOnce ==
    /\ WrapperReturned
    /\ script[1] = "AccessDeniedException"
    /\ script[2] = OK
    /\ Len(log) = 1
    /\ sleeps = <<>>
    /\ result.err = "AccessDeniedException"
    /\ ~exited

\* C26: the delay slept after the failed attempt of index k (k = 0, 1) is
\* RETRY_DELAY * 2^k, i.e. 2 s and then 4 s; every delay is followed by
\* another attempt, so none is slept after the third failed attempt or
\* after a failure that is not retried; a wrapped call sleeps at most 6 s.
BackoffDelaysDouble ==
    WrapperReturned =>
        /\ sleeps \in {<<>>, <<2>>, <<2, 4>>}
        /\ Len(sleeps) = Len(log) - 1
        /\ \A k \in 1..Len(sleeps) :
              /\ sleeps[k] = RETRY_DELAY * (2 ^ (k - 1))
              /\ log[k].out # OK
        /\ (Len(log) = MAX_RETRIES /\ log[MAX_RETRIES].out # OK) =>
              Len(sleeps) = MAX_RETRIES - 1
        /\ (IF sleeps = <<>> THEN 0
            ELSE IF Len(sleeps) = 1 THEN sleeps[1]
            ELSE sleeps[1] + sleeps[2]) <= 6

\* C26 witness: two rate-limited attempts, slept 2 s and 4 s, then success
SleptTwoThenFour ==
    /\ WrapperReturned
    /\ script[1] \in RateLimitCodes
    /\ script[2] \in RateLimitCodes
    /\ script[3] = OK
    /\ sleeps = <<2, 4>>
    /\ Len(log) = 3
    /\ result.err = OK

\* C12: in either wrapper a first attempt failing with a transient service
\* error is followed by a second attempt after a backoff delay, as one
\* failing with a rate-limit error is.
BothTransientKindsRetried ==
    (WrapperReturned /\ script[1] \in RateLimitCodes \cup ServiceErrorCodes)
        => /\ Len(log) >= 2
           /\ Len(sleeps) >= 1

----------------------------------------------------------------------------
(* Specification SpecExpiry: the classifier on one tape, for thresholds and *)
(* ages on both sides of every day boundary                                *)

ExpiryDays == {0, 1, 30, ArchiveFallbackDays, ArchiveFallbackDays + 1}

\* ages in seconds: around each threshold, and creation dates in the future
Ages ==
    {d * SecondsPerDay + x :
        d \in ExpiryDays \cup {e + 1 : e \in ExpiryDays},
        x \in {-1, 0, 1, SecondsPerDay - 1}}
    \cup {-SecondsPerDay - 1, -SecondsPerDay}

InitExpiry == InitRetry

\* self.is_tape_expired(tape, expiry_days)
CallIsTapeExpired ==
    /\ runs = 0
    /\ \E status \in Statuses, expiry_days \in ExpiryDays,
          created \in {NoDate} \cup {Now - a : a \in Ages} :
          LET tape == Tape("t1", "B1", status, NoGateway, created)
          IN Commit([w |-> NewWorld(<<>>),
                     res |-> [expired |->
                                IsTapeExpired(tape, expiry_days, Now)]],
                    [name |-> "is_tape_expired", tape |-> tape,
                     expiry_days |-> expiry_days, now |-> Now])

NextExpiry == CallIsTapeExpired

SpecExpiry == InitExpiry /\ [][NextExpiry]_vars

Classified == call.name = "is_tape_expired"

\* C6: a tape with a creation timestamp is expired exactly when at least
\* D + 1 whole days lie between its creation and now; in particular a tape
\* whose age in whole days equals D is not expired.
ExpiredIffOlderThanThreshold ==
    (Classified /\ call.tape.TapeCreatedDate # NoDate) =>
        (result.expired <=>
            call.now - call.tape.TapeCreatedDate
                >= (call.expiry_days + 1) * SecondsPerDay)

\* C6 witness: a tape one second short of D + 1 days is not expired
AgeEqualToThresholdNotExpired ==
    /\ Classified
    /\ call.tape.TapeCreatedDate # NoDate
    /\ call.expiry_days = 30
    /\ call.now - call.tape.TapeCreatedDate = 31 * SecondsPerDay - 1
    /\ ~result.expired

----------------------------------------------------------------------------
(* Specification SpecResolve: the owner resolution of active tapes, for    *)
(* accounts with one gateway or more and tapes spread over them            *)

\* most gateways in the account
MaxGateways == 3

\* ARN of the k-th gateway
GatewayArn(k) == CASE k = 1 -> "g1" [] k = 2 -> "g2" [] k = 3 -> "g3"
                   [] OTHER -> "g4"

\* the gateways of the account, in the order list_gateways returns them
GatewayLists == {[k \in 1..n |-> GatewayArn(k)] : n \in 1..MaxGateways}

\* active tapes, each on one of the gateways or on none
ResolveInventories ==
    UNION {{[k \in 1..n |->
                Tape(TapeArn(k), TapeBarcode(k), "AVAILABLE", f[k], Old)] :
            f \in [1..n -> {GatewayArn(k) : k \in 1..MaxGateways}
                              \cup {NoGateway}]} :
           n \in 0..MaxTapes}

InitResolve ==
    /\ tapes \in ResolveInventories
    /\ gateways \in GatewayLists
    /\ script = <<>>
    /\ call = NoCall
    /\ log = <<>>
    /\ sleeps = <<>>
    /\ result = NoResult
    /\ exited = FALSE
    /\ runs = 0
    /\ previous = NoPrevious

\* self.get_tape_details(tape_arns) for the ARNs of the listing
CallGetTapeDetails ==
    /\ runs = 0
    /\ \E sc \in Scripts :
          LET Returned(d) == [w |-> d.w, res |-> [tapes |-> d.tapes]]
          IN Commit(Returned(GetTapeDetails(NewWorld(sc), Arns(tapes),
                                            NoGateway)),
                    [name |-> "get_tape_details", tape_arns |-> Arns(tapes),
                     inventory |-> tapes])

\* self._find_gateway_for_tape(tape_arn) for a tape of the listing
CallFindGatewayForTape ==
    /\ runs = 0
    /\ \E sc \in Scripts, k \in 1..Len(tapes) :
          LET Returned(f) == [w |-> f.w, res |-> [gw |-> f.gw]]
          IN Commit(Returned(FindGatewayForTape(NewWorld(sc),
                                                tapes[k].TapeARN)),
                    [name |-> "_find_gateway_for_tape",
                     tape_arn |-> tapes[k].TapeARN, inventory |-> tapes])

\* self.delete_virtual_tape(tape_arn) for a tape of the listing
CallDeleteVirtualTape ==
    /\ runs = 0
    /\ \E sc \in Scripts, k \in 1..Len(tapes) :
          LET Returned(d) == [w |-> d.w, res |-> [ok |-> d.ok]]
          IN Commit(Returned(DeleteVirtualTape(NewWorld(sc),
                                               tapes[k].TapeARN)),
                    [name |-> "delete_virtual_tape",
                     tape_arn |-> tapes[k].TapeARN, inventory |-> tapes])

NextResolve ==
    \/ CallGetTapeDetails
    \/ CallFindGatewayForTape
    \/ CallDeleteVirtualTape

SpecResolve == InitResolve /\ [][NextResolve]_vars

\* C18: without remote failures, the enumeration probe returns one detail
\* record, naming the owner, for every requested tape that is on a gateway
\* of the account, however many tapes and gateways there are, and none for
\* a tape on no gateway; the single-tape search returns the owner, or none.
ResolverFindsEveryOwner ==
    /\ (call.name = "get_tape_details" /\ script = <<>>) =>
          \A i \in 1..Len(call.inventory) :
              LET t == call.inventory[i]
                  recs == {j \in 1..Len(result.tapes) :
                              result.tapes[j].TapeARN = t.TapeARN}
              IN IF t.GatewayARN \in Range(gateways)
                 THEN /\ Cardinality(recs) = 1
                      /\ \A j \in recs :
                            result.tapes[j].GatewayARN = t.GatewayARN
                 ELSE recs = {}
    /\ (call.name = "_find_gateway_for_tape" /\ script = <<>>) =>
          LET t == InventoryTape(call.tape_arn)
          IN result.gw = IF t.GatewayARN \in Range(gateways)
                         THEN t.GatewayARN ELSE NoGateway

\* the describe_tapes attempts of the operation, in order
Probes ==
    LET IsProbe(e) == e.op = "describe_tapes"
    IN SelectSeq(log, IsProbe)

\* the gateways list_gateways returned to the operation
ListedGateways ==
    LET answered == {i \in 1..Len(log) :
                        log[i].op = "list_gateways" /\ log[i].out = OK}
    IN IF answered = {} THEN <<>>
       ELSE SubSeq(gateways, 1, log[CHOOSE i \in answered : TRUE].returned)

\* the probe found the tape on its gateway
Matched(e) == e.out = OK /\ e.returned > 0

\* place of gateway gw in the sequence gws
PlaceOf(gws, gw) == CHOOSE k \in 1..Len(gws) : gws[k] = gw

\* C24: the single-tape owner search probes the listed gateways one at a
\* time in listing order, starting with the first; a probe that fails or
\* finds nothing is followed by a probe of the next gateway (or, through the
\* retry wrapper, by another attempt on the same gateway after a transient
\* failure); the first probe that finds the tape is the last one made, and
\* its gateway is the owner returned and the one the delete call is sent to.
FirstMatchShortCircuits ==
    call.name \in {"_find_gateway_for_tape", "delete_virtual_tape"} =>
        LET P == Probes
            L == ListedGateways
            n == Len(Probes)
        IN /\ \A i \in 1..n :
                 P[i].arns = <<call.tape_arn>> /\ P[i].gw \in Range(L)
           /\ (L # <<>> /\ ~exited) => (n > 0 /\ P[1].gw = L[1])
           /\ \A i \in 1..(n - 1) :
                 /\ ~Matched(P[i])
                 /\ \/ /\ P[i + 1].gw = P[i].gw
                       /\ P[i].out \in RateLimitCodes \cup ServiceErrorCodes
                    \/ /\ PlaceOf(L, P[i].gw) < Len(L)
                       /\ P[i + 1].gw = L[PlaceOf(L, P[i].gw) + 1]
           /\ (n > 0 /\ ~Matched(P[n]) /\ ~exited) => P[n].gw = L[Len(L)]
           /\ call.name = "_find_gateway_for_tape" =>
                 result.gw = IF n > 0 /\ Matched(P[n]) THEN P[n].gw
                             ELSE NoGateway
           /\ call.name = "delete_virtual_tape" =>
                 \A i \in 1..Len(log) :
                     log[i].op = "delete_tape" =>
                         /\ n > 0
                         /\ Matched(P[n])
                         /\ log[i].gw = P[n].gw

\* C24 witness: the tape is on the first of two listed gateways; the first
\* probe finds it and the second gateway is never probed
SecondGatewayNotProbed ==
    /\ call.name = "_find_gateway_for_tape"
    /\ Len(ListedGateways) = 2
    /\ Len(Probes) = 1
    /\ Probes[1].gw = "g1"
    /\ Matched(Probes[1])
    /\ result.gw = "g1"

----------------------------------------------------------------------------
(* Specification SpecRerun: an orchestrator run followed by the same run   *)
(* again, or by the deletion of a tape the first run has deleted           *)

RerunStatuses == {"ARCHIVED", "AVAILABLE", "RETRIEVED", "CREATING"}

RerunInventories ==
    {inv \in Inventories :
        \A i \in 1..Len(inv) : inv[i].TapeStatus \in RerunStatuses}

\* the remote failures of a run that is repeated: none, or one failure of
\* the first or of the second attempt
RerunScripts == {sc \in Scripts : Len(sc) <= 2}

\* the remote failures of a single-tape deletion: none, or the first attempt
GoneScripts == {sc \in Scripts : Len(sc) <= 1}

InitRerun ==
    /\ tapes \in RerunInventories
    /\ gateways = <<"g1", "g2">>
    /\ script = <<>>
    /\ call = NoCall
    /\ log = <<>>
    /\ sleeps = <<>>
    /\ result = NoResult
    /\ exited = FALSE
    /\ runs = 0
    /\ previous = NoPrevious

\* a second run is the command of the first run given again, in a new
\* process, with the remote attempts failing as they did in the first run
Repeats(sc, c) ==
    runs = 1 => (sc = script /\ c = [call EXCEPT !.inventory = tapes])

\* VirtualTapeManager.delete_expired_tapes, run once and then once more
RunVtmDeleteExpired ==
    /\ runs < 2
    /\ \E sc \in RerunScripts, dry_run \in BOOLEAN,
          expiry_days \in ThresholdDays, gateway_arn \in {NoGateway, "g1"} :
          /\ Repeats(sc, Run("vtm.delete_expired_tapes", dry_run,
                             expiry_days, gateway_arn, <<>>))
          /\ Commit(DeleteExpiredTapes(NewWorld(sc), expiry_days, dry_run,
                                       gateway_arn, Now),
                    Run("vtm.delete_expired_tapes", dry_run, expiry_days,
                        gateway_arn, <<>>))

\* VirtualTapeManager.delete_specific_tapes, run once and then once more
RunVtmDeleteSpecific ==
    /\ runs < 2
    /\ \E sc \in RerunScripts, dry_run \in BOOLEAN, tape_list \in IdLists :
          /\ Repeats(sc, Run("vtm.delete_specific_tapes", dry_run, 0,
                             NoGateway, tape_list))
          /\ Commit(DeleteSpecificTapes(NewWorld(sc), tape_list, dry_run),
                    Run("vtm.delete_specific_tapes", dry_run, 0, NoGateway,
                        tape_list))

\* tape_operations.delete_expired_tapes, run once and then once more
RunOpsDeleteExpired ==
    /\ runs < 2
    /\ \E sc \in RerunScripts, dry_run \in BOOLEAN,
          expiry_days \in ThresholdDays :
          /\ Repeats(sc, Run("ops.delete_expired_tapes", dry_run,
                             expiry_days, NoGateway, <<>>))
          /\ Commit(OpsDeleteExpiredTapes(NewWorld(sc), expiry_days, dry_run),
                    Run("ops.delete_expired_tapes", dry_run, expiry_days,
                        NoGateway, <<>>))

\* tape_operations.delete_specific_tapes, run once and then once more
RunOpsDeleteSpecific ==
    /\ runs < 2
    /\ \E sc \in RerunScripts, dry_run \in BOOLEAN, tape_list \in IdLists :
          /\ Repeats(sc, Run("ops.delete_specific_tapes", dry_run, 0,
                             NoGateway, tape_list))
          /\ Commit(OpsDeleteSpecificTapes(NewWorld(sc), tape_list, dry_run),
                    Run("ops.delete_specific_tapes", dry_run, 0, NoGateway,
                        tape_list))

\* the tape of the first run's inventory with this ARN is no longer listed
Gone(k) == call.inventory[k].TapeARN \notin Range(Arns(tapes))

\* self.delete_virtual_tape(tape_arn) for a tape the first run deleted
DeleteGoneVirtualTape ==
    /\ runs = 1
    /\ \E sc \in GoneScripts, k \in 1..Len(call.inventory) :
          /\ Gone(k)
          /\ LET Returned(d) == [w |-> d.w, res |-> [ok |-> d.ok]]
             IN Commit(Returned(DeleteVirtualTape(NewWorld(sc),
                                   call.inventory[k].TapeARN)),
                       [name |-> "delete_virtual_tape",
                        tape_arn |-> call.inventory[k].TapeARN,
                        inventory |-> tapes])

\* manager.delete_tape(tape_arn, tape_status) for a tape the first run
\* deleted, with the status it was last seen in
DeleteGoneTape ==
    /\ runs = 1
    /\ \E sc \in GoneScripts, k \in 1..Len(call.inventory) :
          /\ Gone(k)
          /\ LET Returned(d) == [w |-> d.w, res |-> [ok |-> d.ok]]
             IN Commit(Returned(TmDeleteTape(NewWorld(sc),
                                   call.inventory[k].TapeARN,
                                   call.inventory[k].TapeStatus)),
                       [name |-> "delete_tape",
                        tape_arn |-> call.inventory[k].TapeARN,
                        inventory |-> tapes])

NextRerun ==
    \/ RunVtmDeleteExpired
    \/ RunVtmDeleteSpecific
    \/ RunOpsDeleteExpired
    \/ RunOpsDeleteSpecific
    \/ DeleteGoneVirtualTape
    \/ DeleteGoneTape

SpecRerun == InitRerun /\ [][NextRerun]_vars

GoneArns ==
    Range(Arns(previous.call.inventory)) \ Range(Arns(call.inventory))

\* the listing of the operation came back whole
ListingObtained ==
    \E i \in 1..Len(log) :
        /\ log[i].op = "list_tapes"
        /\ log[i].out = OK
        /\ log[i].next = NoMarker

\* C20: deleting a tape that is no longer listed returns a failure: no
\* delete call succeeds and the inventory stays; delete_virtual_tape lists
\* the tapes again (the listing is obtained when no remote attempt fails)
\* and, once its listing is obtained, makes no further remote call and the
\* process goes on, and TapeManager.delete_tape never ends the process.  A
\* second execute run issues no delete call for a tape the first run
\* deleted, and without remote failures it ends normally.
DeletingGoneTapeHarmless ==
    /\ call.name = "delete_virtual_tape" =>
          /\ result.ok = FALSE
          /\ tapes = call.inventory
          /\ script = <<>> => ListingObtained
          /\ ListingObtained =>
                /\ ~exited
                /\ \A i \in 1..Len(log) : log[i].op = "list_tapes"
    /\ call.name = "delete_tape" =>
          /\ result.ok = FALSE
          /\ tapes = call.inventory
          /\ ~exited
          /\ \A i \in 1..Len(log) :
                log[i].op \in DeleteOps => log[i].out # OK
    /\ (runs = 2 /\ IsDeleteRun /\ ~call.dry_run) =>
          /\ \A i \in 1..Len(log) :
                log[i].op \in DeleteOps => log[i].arns[1] \notin GoneArns
          /\ script = <<>> => ~exited

\* C20 witness: the first execute run deleted both tapes; the second one
\* finds nothing to delete and ends normally
SecondRunDeletesNothing ==
    /\ runs = 2
    /\ call.name = "vtm.delete_expired_tapes"
    /\ ~call.dry_run
    /\ script = <<>>
    /\ Len(previous.call.inventory) = 2
    /\ previous.result.deleted_tapes = 2
    /\ call.inventory = <<>>
    /\ result.deleted_tapes = 0
    /\ result.failed_deletions = 0
    /\ \A i \in 1..Len(log) : log[i].op \notin DeleteOps
    /\ ~exited

----------------------------------------------------------------------------
(* Specification SpecInventory: one listing or one inventory of either     *)
(* implementation, with remote attempts that may fail                      *)

\* status filters: none, one status, two statuses
StatusFilters == {{}, {"AVAILABLE"}, {"ARCHIVED", "RETRIEVED"}}

InitInventory ==
    /\ tapes \in Inventories
    /\ gateways = <<"g1", "g2">>
    /\ script = <<>>
    /\ call = NoCall
    /\ log = <<>>
    /\ sleeps = <<>>
    /\ result = NoResult
    /\ exited = FALSE
    /\ runs = 0
    /\ previous = NoPrevious

\* self.list_virtual_tapes(gateway_arn)
CallListVirtualTapes ==
    /\ runs = 0
    /\ \E sc \in Scripts, gateway_arn \in {NoGateway, "g1"} :
          LET Returned(l) == [w |-> l.w, res |-> [tapes |-> l.tapes]]
          IN Commit(Returned(ListVirtualTapes(NewWorld(sc), gateway_arn)),
                    [name |-> "list_virtual_tapes",
                     gateway_arn |-> gateway_arn,
                     status_filter |-> {}, inventory |-> tapes])

\* manager.list_tapes(status_filter)
CallListTapes ==
    /\ runs = 0
    /\ \E sc \in Scripts, status_filter \in StatusFilters :
          LET Returned(l) == [w |-> l.w, res |-> [tapes |-> l.tapes]]
          IN Commit(Returned(TmListTapes(NewWorld(sc), status_filter)),
                    [name |-> "list_tapes", gateway_arn |-> NoGateway,
                     status_filter |-> status_filter, inventory |-> tapes])

\* self.list_all_tapes_detailed(gateway_arn, status_filter)
CallListAllTapesDetailed ==
    /\ runs = 0
    /\ \E sc \in Scripts, gateway_arn \in {NoGateway, "g1"},
          status_filter \in StatusFilters :
          Commit(ListAllTapesDetailed(NewWorld(sc), gateway_arn,
                                      status_filter),
                 [name |-> "list_all_tapes_detailed",
                  gateway_arn |-> gateway_arn,
                  status_filter |-> status_filter, inventory |-> tapes])

\* inventory_tapes(manager, status_filter)
CallInventoryTapes ==
    /\ runs = 0
    /\ \E sc \in Scripts, status_filter \in StatusFilters :
          Commit(InventoryTapes(NewWorld(sc), status_filter),
                 [name |-> "inventory_tapes", gateway_arn |-> NoGateway,
                  status_filter |-> status_filter, inventory |-> tapes])

NextInventory ==
    \/ CallListVirtualTapes
    \/ CallListTapes
    \/ CallListAllTapesDetailed
    \/ CallInventoryTapes

SpecInventory == InitInventory /\ [][NextInventory]_vars

\* the operation is a listing made of list_tapes calls only
IsPlainListing ==
    \/ call.name = "list_tapes"
    \/ call.name = "list_virtual_tapes" /\ call.gateway_arn = NoGateway

\* what the listing returns of the inventory when every page is obtained
ExpectedListing ==
    LET Kept(t) == \/ call.status_filter = {}
                   \/ t.TapeStatus \in call.status_filter
        kept == SelectSeq(call.inventory, Kept)
    IN [i \in 1..Len(kept) |-> TapeInfo(kept[i])]

RECURSIVE SumSizes(_)
SumSizes(rs) ==
    IF rs = <<>> THEN 0 ELSE Head(rs).size_bytes + SumSizes(Tail(rs))

RECURSIVE SumUsed(_)
SumUsed(rs) ==
    IF rs = <<>> THEN 0 ELSE Head(rs).used_bytes + SumUsed(Tail(rs))

\* the groups by_status are those of the sequence ts by the status st(_)
GroupsPartition(by_status, ts, st(_)) ==
    /\ DOMAIN by_status = {st(ts[i]) : i \in 1..Len(ts)}
    /\ \A s \in DOMAIN by_status :
          LET HasStatus(t) == st(t) = s
          IN by_status[s] = SelectSeq(ts, HasStatus)

\* C21: an inventory that returns reports a filtered count no larger than
\* the total, groups that partition the returned tapes, and aggregates that
\* are the sums over the returned tapes; without remote failures (and, for
\* list_all_tapes_detailed, without a gateway given) the returned tapes are
\* exactly the listed tapes whose status is in the filter, all of them
\* when there is no filter.
InventoryFilterExact ==
    /\ (call.name = "list_all_tapes_detailed" /\ ~exited) =>
          LET Status(r) == r.status
          IN /\ result.filtered_tapes = Len(result.tape_details)
             /\ result.filtered_tapes <= result.total_tapes
             /\ GroupsPartition(result.tapes_by_status,
                                result.tape_details, Status)
             /\ result.total_size_bytes = SumSizes(result.tape_details)
             /\ result.total_used_bytes = SumUsed(result.tape_details)
             /\ (script = <<>> /\ call.gateway_arn = NoGateway) =>
                   /\ result.total_tapes = Len(call.inventory)
                   /\ {result.tape_details[i].arn :
                          i \in 1..Len(result.tape_details)}
                        = {ExpectedListing[i].TapeARN :
                             i \in 1..Len(ExpectedListing)}
                   /\ result.filtered_tapes = Len(ExpectedListing)
    /\ call.name = "inventory_tapes" =>
          LET Status(t) == t.TapeStatus
          IN /\ result.total = Len(result.tapes)
             /\ result.total <= result.total_all
             /\ GroupsPartition(result.by_status, result.tapes, Status)
             /\ script = <<>> =>
                   /\ result.total_all = Len(call.inventory)
                   /\ result.tapes = ExpectedListing

----------------------------------------------------------------------------
(* Specification SpecArn: the grouping of tape ARNs by the gateway ARN     *)
(* parsed out of them (test_arn_parsing.py).  A string is a sequence of    *)
(* tokens, the separators ":" and "/" being tokens of their own.           *)

\* most ARNs given to the loop
MaxArns == 2

\* s.split(sep): the pieces of s between the occurrences of sep
RECURSIVE Split(_, _)
Split(s, sep) ==
    IF \A i \in 1..Len(s) : s[i] # sep THEN <<s>>
    ELSE LET first == CHOOSE i \in 1..Len(s) :
                         /\ s[i] = sep
                         /\ \A j \in 1..(i - 1) : s[j] # sep
         IN <<SubSeq(s, 1, first - 1)>>
            \o Split(SubSeq(s, first + 1, Len(s)), sep)

\* sep.join(parts)
RECURSIVE Join(_, _)
Join(parts, sep) ==
    IF parts = <<>> THEN <<>>
    ELSE IF Len(parts) = 1 THEN parts[1]
    ELSE parts[1] \o <<sep>> \o Join(Tail(parts), sep)

\* lines 26-41: the gateway ARN extracted from a tape ARN, or a failure
ParseTapeArn(tape_arn) ==
    LET arn_parts == Split(tape_arn, ":")
        resource_parts == Split(arn_parts[6], "/")
        gateway_id == resource_parts[2]
    IN IF Len(arn_parts) >= 6
       THEN IF Len(resource_parts) >= 2
            THEN [ok |-> TRUE,
                  gateway_arn |-> Join(SubSeq(arn_parts, 1, 5), ":")
                                  \o <<":", "gateway", "/">> \o gateway_id]
            ELSE [ok |-> FALSE, gateway_arn |-> <<>>]
       ELSE [ok |-> FALSE, gateway_arn |-> <<>>]

\* lines 43-45: tape_arn appended to the list kept under gateway_arn
GroupUnder(tapes_by_gateway, gateway_arn, tape_arn) ==
    [g \in DOMAIN tapes_by_gateway \cup {gateway_arn} |->
        IF g # gateway_arn THEN tapes_by_gateway[g]
        ELSE IF g \in DOMAIN tapes_by_gateway
             THEN Append(tapes_by_gateway[g], tape_arn)
        ELSE <<tape_arn>>]

\* resource fields: tape/<gateway-id>/<tape-id>, tape/<tape-id>, tape
ArnResources ==
    {<<"tape", "/", "sgw1", "/", "VTL001">>,
     <<"tape", "/", "sgw2", "/", "VTL002">>,
     <<"tape", "/", "sgw1", "/", "VTL003">>,
     <<"tape", "/", "VTL001">>,
     <<"tape">>}

ArnRegions == {"us-east-1", "eu-west-1"}

\* ARNs of six fields, of five (no account field) and of seven
TapeArnInputs ==
    UNION {{<<"arn", ":", "aws", ":", "storagegateway", ":", region, ":",
              "123456789012", ":">> \o resource,
            <<"arn", ":", "aws", ":", "storagegateway", ":", region, ":">>
              \o resource,
            <<"arn", ":", "aws", ":", "storagegateway", ":", region, ":",
              "123456789012", ":">> \o resource \o <<":", "1">>} :
           region \in ArnRegions, resource \in ArnResources}

InitArn ==
    /\ tapes = <<>>
    /\ gateways = <<>>
    /\ script = <<>>
    /\ call = NoCall
    /\ log = <<>>
    /\ sleeps = <<>>
    /\ result = [ok |-> FALSE, gateway_arn |-> <<>>,
                 tapes_by_gateway |-> [g \in {} |-> <<>>]]
    /\ exited = FALSE
    /\ runs = 0
    /\ previous = NoPrevious

\* one iteration of the loop of test_arn_parsing, lines 21-55
TestArnParsing ==
    /\ runs < MaxArns
    /\ \E tape_arn \in TapeArnInputs :
          LET Parsed(p) ==
                [w |-> NewWorld(<<>>),
                 res |-> [ok |-> p.ok, gateway_arn |-> p.gateway_arn,
                          tapes_by_gateway |->
                              IF p.ok
                              THEN GroupUnder(result.tapes_by_gateway,
                                              p.gateway_arn, tape_arn)
                              ELSE result.tapes_by_gateway]]
          IN Commit(Parsed(ParseTapeArn(tape_arn)),
                    [name |-> "test_arn_parsing", tape_arn |-> tape_arn])

NextArn == TestArnParsing

SpecArn == InitArn /\ [][NextArn]_vars

\* the gateways the tape ARN of the last iteration is grouped under
GroupsOf(tape_arn) ==
    {g \in DOMAIN result.tapes_by_gateway :
        tape_arn \in Range(result.tapes_by_gateway[g])}

====
